---- MODULE Spec2Model ----
(***************************************************************************)
(* MADCounter: text statistics (characters, words, lines, longest word,    *)
(* longest line) of one file, driven by command-line flags.                *)
(*                                                                         *)
(* Texts (tokens, arguments, file contents) are sequences of byte values.  *)
(* Three specifications share the definitions below:                       *)
(*   SpecBuild  the two collection builds, one insert per step             *)
(*   SpecParse  parseArguments, one argument per step                      *)
(*   Spec       main -> parseArguments -> analyzeFile, one phase per step  *)
(***************************************************************************)
EXTENDS Integers, Sequences, FiniteSets, TLC

VARIABLES
  pc,           \* position of the running function
  args,         \* argv[1..argc-1]
  ps,           \* the out-parameters and loop index of parseArguments
  errors,       \* error messages printed so far (printf to stdout)
  content,      \* bytes the input stream delivers
  cursor,       \* read position of the input stream
  heap,         \* malloc'ed WORD nodes, indexed by address 1..Len(heap)
  freed,        \* addresses released with free
  wordHead, totalWords, uniqueWords, wordIndex,
  lineHead, totalLines, uniqueLines, lineIndex,
  chars,        \* charFrequency / charFirstPos / uniqueCharCount
  fileSize,     \* result of ftell at the end of the input, -1 before
  inputOpen,    \* inputFP is open
  outputOpen,   \* outputFP is an open file other than stdout
  created,      \* output paths created or truncated by fopen(.., "w")
  passLog,      \* analysis passes run, with the cursor each started at
  emitIdx,      \* loop index i of the section loop
  firstSection,
  report,       \* what was written to outputFP, one item per fprintf
  analyzeResult,\* return value of analyzeFile, -1 before it returns
  exitCode,     \* return value of main, -1 before it returns
  batchFP,      \* the control file: "none", "failed", "open" or "closed"
  batchData,    \* bytes of the control file
  batchCursor,  \* read position of the control file
  batchLine,    \* the line buffer of processBatchFile
  batchLog,     \* one entry per line that reached the tokenizer
  longest,      \* locals of printLongestWord / printLongestLine, call by call
  stdoutOpen,   \* the standard output stream has not been closed
  mem           \* tie buffers allocated so far, and every block handed to free, in order

vars == <<pc, args, ps, errors, content, cursor, heap, freed,
          wordHead, totalWords, uniqueWords, wordIndex,
          lineHead, totalLines, uniqueLines, lineIndex,
          chars, fileSize, inputOpen, outputOpen, created, passLog,
          emitIdx, firstSection, report, analyzeResult, exitCode,
          batchFP, batchData, batchCursor, batchLine, batchLog, longest,
          stdoutOpen, mem>>

batchVars == <<batchFP, batchData, batchCursor, batchLine, batchLog>>

listVars == <<heap, wordHead, totalWords, uniqueWords, wordIndex,
              lineHead, totalLines, uniqueLines, lineIndex>>

----------------------------------------------------------------------------
(* Bounds of the model *)

MaxFileLen == 5

MaxBatchLines == 2

MaxParseArgs == 5

MaxFlagArgs == 6

MaxRunArgs == 4

MaxRunFileLen == 2

----------------------------------------------------------------------------
(* Program constants *)

MAX_WORD_LENGTH == 1000

MAX_LINE_LENGTH == 10000

ASCII_RANGE == 128

MAX_FLAGS == 5

FLAG_C == 0

FLAG_W == 1

FLAG_L == 2

FLAG_LW == 3

FLAG_LL == 4

NULL == 0

----------------------------------------------------------------------------
(* Bytes and texts *)

NL == 10

SP == 32

DASH == 45

isspace(c) == c \in {9, 10, 11, 12, 13, 32}

FileAlphabet == {97, 98, 99, SP, NL}

\* the bytes of the files of a whole run
RunFileAlphabet == {97, 98, SP, NL}

Range(f) == {f[i] : i \in DOMAIN f}

Min(S) == CHOOSE x \in S : \A y \in S : x <= y

\* the sequences over S of length n
SeqsOfLen(S, n) == [1..n -> S]

RECURSIVE Concat(_)
Concat(ss) == IF ss = <<>> THEN <<>> ELSE Head(ss) \o Concat(Tail(ss))

RECURSIVE strcmp(_, _)
strcmp(s, t) ==
  IF s = <<>> /\ t = <<>> THEN 0
  ELSE IF s = <<>> THEN -1
  ELSE IF t = <<>> THEN 1
  ELSE IF Head(s) < Head(t) THEN -1
  ELSE IF Head(s) > Head(t) THEN 1
  ELSE strcmp(Tail(s), Tail(t))

----------------------------------------------------------------------------
(* Reading tokens from the input stream *)

\* the position in front of the first byte after pos that is no white space
skipSpace(data, pos) ==
  LET others == {k \in (pos + 1)..Len(data) : ~isspace(data[k])}
  IN  IF others = {} THEN Len(data) ELSE Min(others) - 1

\* the position in front of the first white space after pos
scanWord(data, pos) ==
  LET spaces == {k \in (pos + 1)..Len(data) : isspace(data[k])}
  IN  IF spaces = {} THEN Len(data) ELSE Min(spaces) - 1

\* fscanf(fp, "%s", buffer): skip white space, then read a maximal run of
\* other bytes; ok is FALSE when the end of file comes first
fscanfWord(data, pos) ==
  LET from == skipSpace(data, pos)
      to   == scanWord(data, from)
  IN  [ok |-> from < Len(data), buffer |-> SubSeq(data, from + 1, to), pos |-> to]

\* the position fgets stops at: after room bytes, at the end of the data, or
\* just after the first newline, whichever comes first
scanLine(data, pos, room) ==
  LET limit == IF pos + room < Len(data) THEN pos + room ELSE Len(data)
      nls == {k \in (pos + 1)..limit : data[k] = NL}
  IN  IF nls = {} THEN limit ELSE Min(nls)

\* fgets(buffer, MAX_LINE_LENGTH, fp): at most MAX_LINE_LENGTH - 1 bytes,
\* up to and including a newline; ok is FALSE when no byte could be read
fgetsLine(data, pos) ==
  LET to == scanLine(data, pos, MAX_LINE_LENGTH - 1)
  IN  [ok |-> pos < Len(data), buffer |-> SubSeq(data, pos + 1, to), pos |-> to]

\* the "remove trailing newline if present" of buildLineList
stripNewline(buffer) ==
  IF buffer[Len(buffer)] = NL THEN SubSeq(buffer, 1, Len(buffer) - 1) ELSE buffer

----------------------------------------------------------------------------
(* The sorted doubly-linked list *)

RECURSIVE findDuplicate(_, _, _)
findDuplicate(h, current, word) ==
  IF current = NULL THEN NULL
  ELSE IF strcmp(h[current].contents, word) = 0 THEN current
  ELSE findDuplicate(h, h[current].nextWord, word)

\* variant: the last occurrence wins
bumpFrequency_lastWins(h, current, position) ==
  [h EXCEPT ![current].frequency = @ + 1, ![current].orderAppeared = position]

bumpFrequency(h, current, position) ==
  [h EXCEPT ![current].frequency = @ + 1]

\* variant: positions counted from one
newNode_oneBased(word, position) ==
  [contents |-> word, numChars |-> Len(word), frequency |-> 1,
   orderAppeared |-> position + 1, nextWord |-> NULL, prevWord |-> NULL]

newNode(word, position) ==
  [contents |-> word, numChars |-> Len(word), frequency |-> 1,
   orderAppeared |-> position, nextWord |-> NULL, prevWord |-> NULL]

\* variant: the search for the insertion point stays at the head
RECURSIVE findInsertPoint_head(_, _, _)
findInsertPoint_head(h, current, word) == current

RECURSIVE findInsertPoint(_, _, _)
findInsertPoint(h, current, word) ==
  IF h[current].nextWord # NULL /\ strcmp(h[current].contents, word) < 0
  THEN findInsertPoint(h, h[current].nextWord, word)
  ELSE current

\* variant: the comparison the wrong way round
insertBeforeCurrent_flipped(text, word) == strcmp(text, word) < 0

insertBeforeCurrent(text, word) == strcmp(text, word) > 0

\* variant: current->prevWord is left as it was
spliceBefore_noBackLink(h, head, current, new) ==
  LET prev == h[current].prevWord
      h1 == [h EXCEPT ![new].nextWord = current, ![new].prevWord = prev]
      h2 == IF prev # NULL THEN [h1 EXCEPT ![prev].nextWord = new] ELSE h1
  IN  [heap |-> h2, head |-> IF current = head THEN new ELSE head]

spliceBefore(h, head, current, new) ==
  LET prev == h[current].prevWord
      h1 == [h EXCEPT ![new].nextWord = current, ![new].prevWord = prev]
      h2 == IF prev # NULL THEN [h1 EXCEPT ![prev].nextWord = new] ELSE h1
      h3 == [h2 EXCEPT ![current].prevWord = new]
  IN  [heap |-> h3, head |-> IF current = head THEN new ELSE head]

spliceAfter(h, head, current, new) ==
  LET next == h[current].nextWord
      h1 == [h EXCEPT ![new].prevWord = current, ![new].nextWord = next]
      h2 == IF next # NULL THEN [h1 EXCEPT ![next].prevWord = new] ELSE h1
      h3 == [h2 EXCEPT ![current].nextWord = new]
  IN  [heap |-> h3, head |-> head]

insertWord(h, head, word, position) ==
  LET dup == findDuplicate(h, head, word)
      new == Len(h) + 1
      h1  == Append(h, newNode(word, position))
  IN  IF dup # NULL THEN [heap |-> bumpFrequency(h, dup, position), head |-> head]
      ELSE IF head = NULL THEN [heap |-> h1, head |-> new]
      ELSE LET current == findInsertPoint(h1, head, word)
           IN  IF insertBeforeCurrent(h1[current].contents, word)
               THEN spliceBefore(h1, head, current, new)
               ELSE spliceAfter(h1, head, current, new)

insertLine(h, head, line, position) ==
  LET dup == findDuplicate(h, head, line)
      new == Len(h) + 1
      h1  == Append(h, newNode(line, position))
  IN  IF dup # NULL THEN [heap |-> bumpFrequency(h, dup, position), head |-> head]
      ELSE IF head = NULL THEN [heap |-> h1, head |-> new]
      ELSE LET current == findInsertPoint(h1, head, line)
           IN  IF insertBeforeCurrent(h1[current].contents, line)
               THEN spliceBefore(h1, head, current, new)
               ELSE spliceAfter(h1, head, current, new)

\* the nodes met when following nextWord from a node; the walk gives up
\* after fuel nodes, so that a cyclic list yields an over-long sequence
RECURSIVE walk(_, _, _)
walk(h, current, fuel) ==
  IF current = NULL \/ fuel = 0 THEN <<>>
  ELSE <<current>> \o walk(h, h[current].nextWord, fuel - 1)

listNodes(h, head) == walk(h, head, Len(h) + 1)

\* variant: every node allocated is counted
countNodes_allocated(h, head) == Len(h)

\* "count unique words by traversing the list"
countNodes(h, head) == Len(listNodes(h, head))

----------------------------------------------------------------------------
(* The two builds *)

RECURSIVE wordLoop(_, _)
wordLoop(data, st) ==
  LET r == fscanfWord(data, st.pos)
  IN  IF ~r.ok THEN [st EXCEPT !.pos = r.pos]
      ELSE LET ins == insertWord(st.heap, st.head, r.buffer, st.index)
           IN  wordLoop(data, [heap |-> ins.heap, head |-> ins.head,
                               total |-> st.total + 1, index |-> st.index + 1,
                               pos |-> r.pos])

\* buildWordList(fp, &totalWords, &uniqueWords) on a stream at position pos
buildWordList(h, data, pos) ==
  LET st == wordLoop(data, [heap |-> h, head |-> NULL, total |-> 0, index |-> 0, pos |-> pos])
  IN  [heap |-> st.heap, head |-> st.head, total |-> st.total, index |-> st.index,
       unique |-> countNodes(st.heap, st.head), pos |-> st.pos]

RECURSIVE lineLoop(_, _)
lineLoop(data, st) ==
  LET r == fgetsLine(data, st.pos)
  IN  IF ~r.ok THEN st
      ELSE LET ins == insertLine(st.heap, st.head, stripNewline(r.buffer), st.index)
           IN  lineLoop(data, [heap |-> ins.heap, head |-> ins.head,
                               total |-> st.total + 1, index |-> st.index + 1,
                               pos |-> r.pos])

\* buildLineList(fp, &totalLines, &uniqueLines) on a stream at position pos
buildLineList(h, data, pos) ==
  LET st == lineLoop(data, [heap |-> h, head |-> NULL, total |-> 0, index |-> 0, pos |-> pos])
  IN  [heap |-> st.heap, head |-> st.head, total |-> st.total, index |-> st.index,
       unique |-> countNodes(st.heap, st.head), pos |-> st.pos]

----------------------------------------------------------------------------
(* Arguments and error messages *)

ArgB == <<DASH, 66>>

ArgF == <<DASH, 102>>

ArgO == <<DASH, 111>>

ArgC == <<DASH, 99>>

ArgW == <<DASH, 119>>

ArgL == <<DASH, 108>>

ArgLw == <<DASH, 76, 119>>

ArgLl == <<DASH, 76, 108>>

\* an argument no branch recognises, and two file names
ArgX == <<DASH, 120>>

PathIn == <<105, 110>>

PathOut == <<111, 117, 116>>

ArgAlphabet == {ArgF, ArgO, ArgC, ArgW, ArgL, ArgLw, ArgLl, ArgX, PathIn, PathOut}

printUsageError == "USAGE"

printInvalidFlagError == "ERROR: Invalid Flag Types"

printNoInputFileError == "ERROR: No Input File Provided"

printInputFileError == "ERROR: Can't open input file"

printNoOutputFileError == "ERROR: No Output File Provided"

printInputFileEmptyError == "ERROR: Input File Empty"

printOutputFileError == "ERROR: Can't open output file"

----------------------------------------------------------------------------
(* parseArguments *)

\* arg[0] == '-'; the first byte of an empty argument is the terminator
beginsDash(arg) == Len(arg) > 0 /\ arg[1] = DASH

\* the defaults written before the loop; flagOrder is the caller's array,
\* in which -1 marks a slot never written
parseStart ==
  [i |-> 1, inputFile |-> NULL, outputFile |-> NULL,
   requestCharAnalysis |-> 0, requestWordAnalysis |-> 0, requestLineAnalysis |-> 0,
   requestLongestWord |-> 0, requestLongestLine |-> 0,
   flagOrder |-> [k \in 0..(MAX_FLAGS - 1) |-> -1], flagCount |-> 0,
   overflow |-> FALSE, ret |-> -1, printed |-> <<>>]

\* print the message and return 0
parseFail(st, message) ==
  [st EXCEPT !.ret = 0, !.printed = Append(@, message)]

\* variant: every occurrence of a flag is recorded
noteOrder_always(st, requested, kind) ==
  [st EXCEPT !.flagOrder = IF st.flagCount < MAX_FLAGS
                           THEN [@ EXCEPT ![st.flagCount] = kind] ELSE @,
             !.overflow = @ \/ st.flagCount >= MAX_FLAGS,
             !.flagCount = @ + 1]

\* variant: a first occurrence is recorded in the slot of its kind's rank
\* among the kinds requested so far, which keeps the list in canonical order
noteOrder_canonical(st, requested, kind) ==
  IF requested # 0 THEN st
  ELSE LET old == {st.flagOrder[k] : k \in 0..(st.flagCount - 1)}
           all == old \cup {kind}
       IN  [st EXCEPT !.flagOrder =
                        [k \in 0..(MAX_FLAGS - 1) |->
                           IF k < Cardinality(all)
                           THEN CHOOSE x \in all : Cardinality({y \in all : y < x}) = k
                           ELSE -1],
                      !.flagCount = @ + 1]

\* variant: a first occurrence is written into the first slot
noteOrder_firstSlot(st, requested, kind) ==
  IF requested # 0 THEN st
  ELSE [st EXCEPT !.flagOrder = [@ EXCEPT ![0] = kind],
                  !.flagCount = @ + 1]

\* if (!*request) flagOrder[(*flagCount)++] = kind;  a write past the last
\* slot of the array is recorded in overflow
noteOrder(st, requested, kind) ==
  IF requested # 0 THEN st
  ELSE [st EXCEPT !.flagOrder = IF st.flagCount < MAX_FLAGS
                                THEN [@ EXCEPT ![st.flagCount] = kind] ELSE @,
                  !.overflow = @ \/ st.flagCount >= MAX_FLAGS,
                  !.flagCount = @ + 1]

\* variant: any next argument is taken as the operand
operandOk_anyShape(a, i) == i + 1 <= Len(a)

\* the operand test of -f and -o: is there a next argument, and is it not
\* flag-shaped
operandOk(a, i) == i + 1 <= Len(a) /\ ~beginsDash(a[i + 1])

\* one iteration of the for loop, at argument a[st.i]
parseStep(a, st) ==
  LET arg == a[st.i]
  IN  IF ~beginsDash(arg) THEN parseFail(st, printInvalidFlagError)
      ELSE IF arg = ArgF THEN
        IF operandOk(a, st.i)
        THEN [st EXCEPT !.inputFile = st.i + 1, !.i = st.i + 2]
        ELSE parseFail(st, printNoInputFileError)
      ELSE IF arg = ArgO THEN
        IF operandOk(a, st.i)
        THEN [st EXCEPT !.outputFile = st.i + 1, !.i = st.i + 2]
        ELSE parseFail(st, printNoOutputFileError)
      ELSE IF arg = ArgC THEN
        [noteOrder(st, st.requestCharAnalysis, FLAG_C)
           EXCEPT !.requestCharAnalysis = 1, !.i = st.i + 1]
      ELSE IF arg = ArgW THEN
        [noteOrder(st, st.requestWordAnalysis, FLAG_W)
           EXCEPT !.requestWordAnalysis = 1, !.i = st.i + 1]
      ELSE IF arg = ArgL THEN
        [noteOrder(st, st.requestLineAnalysis, FLAG_L)
           EXCEPT !.requestLineAnalysis = 1, !.i = st.i + 1]
      ELSE IF arg = ArgLw THEN
        [noteOrder(st, st.requestLongestWord, FLAG_LW)
           EXCEPT !.requestLongestWord = 1, !.i = st.i + 1]
      ELSE IF arg = ArgLl THEN
        [noteOrder(st, st.requestLongestLine, FLAG_LL)
           EXCEPT !.requestLongestLine = 1, !.i = st.i + 1]
      ELSE parseFail(st, printInvalidFlagError)

\* variant: no check for a missing -f
parseFinish_noCheck(st) == [st EXCEPT !.ret = 1]

\* variant: a request without an analysis flag is rejected
parseFinish_needsFlag(st) ==
  IF st.inputFile = NULL THEN parseFail(st, printNoInputFileError)
  ELSE IF st.flagCount = 0 THEN parseFail(st, printInvalidFlagError)
  ELSE [st EXCEPT !.ret = 1]

\* after the loop: -f is required
parseFinish(st) ==
  IF st.inputFile = NULL THEN parseFail(st, printNoInputFileError)
  ELSE [st EXCEPT !.ret = 1]

RECURSIVE parseLoop(_, _)
parseLoop(a, st) ==
  IF st.ret # -1 THEN st
  ELSE IF st.i <= Len(a) THEN parseLoop(a, parseStep(a, st))
  ELSE parseFinish(st)

\* the whole call, on argv[1..argc-1] = a
parseArguments(a) == parseLoop(a, parseStart)

----------------------------------------------------------------------------
(* Character tally *)

\* the arrays and counters after the initialising for loop
charStart ==
  [charFrequency |-> [c \in 0..(ASCII_RANGE - 1) |-> 0],
   charFirstPos |-> [c \in 0..(ASCII_RANGE - 1) |-> 0],
   uniqueCharCount |-> 0, charPosition |-> 0]

\* variant: the position is recorded at every occurrence
charStep_lastWins(st, c) ==
  [charFrequency |-> [st.charFrequency EXCEPT ![c] = @ + 1],
   charFirstPos |-> [st.charFirstPos EXCEPT ![c] = st.charPosition],
   uniqueCharCount |-> IF st.charFrequency[c] # 0 THEN st.uniqueCharCount
                       ELSE st.uniqueCharCount + 1,
   charPosition |-> st.charPosition + 1]

\* the body of the while loop, for the byte c that fgetc returned
charStep(st, c) ==
  LET seen == st.charFrequency[c] # 0
  IN  [charFrequency |-> [st.charFrequency EXCEPT ![c] = @ + 1],
       charFirstPos |-> IF seen THEN st.charFirstPos
                        ELSE [st.charFirstPos EXCEPT ![c] = st.charPosition],
       uniqueCharCount |-> IF seen THEN st.uniqueCharCount
                           ELSE st.uniqueCharCount + 1,
       charPosition |-> st.charPosition + 1]

RECURSIVE charLoop(_, _, _)
charLoop(data, pos, st) ==
  IF pos >= Len(data) THEN st
  ELSE charLoop(data, pos + 1, charStep(st, data[pos + 1]))

\* analyzeCharacters(fp, charFrequency, charFirstPos, &uniqueCharCount) on a
\* stream at position pos
analyzeCharacters(data, pos) ==
  LET st == charLoop(data, pos, charStart)
  IN  [charFrequency |-> st.charFrequency, charFirstPos |-> st.charFirstPos,
       uniqueCharCount |-> st.uniqueCharCount]

----------------------------------------------------------------------------
(* The report: one item per fprintf call *)

item(t, s, n, m) == [t |-> t, s |-> s, n |-> n, m |-> m]

\* fprintf(outputFP, "\n") between sections
Separator == item("Separator", <<>>, 0, 0)

\* the for loop over the byte values 0 .. ASCII_RANGE - 1, in that order
charEntries(freq, first) ==
  LET present == SelectSeq([k \in 1..ASCII_RANGE |-> k - 1], LAMBDA i : freq[i] > 0)
  IN  [k \in 1..Len(present) |->
         item("Char", <<present[k]>>, freq[present[k]], first[present[k]])]

printCharacterAnalysis(freq, first, totalCharCount, uniqueCharCount) ==
  <<item("Total Number of Chars", <<>>, totalCharCount, 0),
    item("Total Unique Chars", <<>>, uniqueCharCount, 0)>>
  \o charEntries(freq, first)

entryItems(t, h, head) ==
  LET ns == listNodes(h, head)
  IN  [k \in 1..Len(ns) |->
         item(t, h[ns[k]].contents, h[ns[k]].frequency, h[ns[k]].orderAppeared)]

printWordAnalysis(h, head, total, unique) ==
  <<item("Total Number of Words", <<>>, total, 0),
    item("Total Unique Words", <<>>, unique, 0)>>
  \o entryItems("Word", h, head)

printLineAnalysis(h, head, total, unique) ==
  <<item("Total Number of Lines", <<>>, total, 0),
    item("Total Unique Lines", <<>>, unique, 0)>>
  \o entryItems("Line", h, head)

RECURSIVE maxLength(_, _, _)
maxLength(h, ns, best) ==
  IF ns = <<>> THEN best
  ELSE maxLength(h, Tail(ns), IF h[Head(ns)].numChars > best THEN h[Head(ns)].numChars ELSE best)

\* the nested i / j loops that sort the tied entries
RECURSIVE sortTied(_, _, _, _)
sortTied(h, a, i, j) ==
  IF i >= Len(a) THEN a
  ELSE IF j > Len(a) THEN sortTied(h, a, i + 1, i + 2)
  ELSE IF strcmp(h[a[i]].contents, h[a[j]].contents) > 0
       THEN sortTied(h, [a EXCEPT ![i] = a[j], ![j] = a[i]], i, j + 1)
  ELSE sortTied(h, a, i, j + 1)

\* the body of printLongestWord / printLongestLine for a non-empty list whose
\* tied entries fit the array of 1000 slots (SpecLongest has the other case)
longestItems(hdr, entry, h, head) ==
  LET ns == listNodes(h, head)
      max == maxLength(h, ns, 0)
      tied == SelectSeq(ns, LAMBDA n : h[n].numChars = max)
      sorted == sortTied(h, tied, 1, 2)
  IN  <<item(hdr, <<>>, max, 0)>>
      \o [k \in 1..Len(sorted) |-> item(entry, h[sorted[k]].contents, 0, 0)]

printLongestWord(h, head) ==
  IF head = NULL THEN <<>>
  ELSE longestItems("Longest Word", "Longest Word Entry", h, head)

printLongestLine(h, head) ==
  IF head = NULL THEN <<>>
  ELSE longestItems("Longest Line", "Longest Line Entry", h, head)

\* variant: only a non-empty list gives a word section
wordSectionDue_nonEmpty(head, total) == head # NULL

\* the separator test at the top of the loop body of the section loop
separatorDue(first) == first = 0

\* the guards of the FLAG_W and FLAG_L cases
wordSectionDue(head, total) == head # NULL \/ total = 0

lineSectionDue(head, total) == head # NULL \/ total = 0

\* one iteration of the section loop of analyzeFile: st holds the report so
\* far and firstSection, D the artefacts built in phase 1
emitSection(st, kind, D) ==
  LET rep == IF separatorDue(st.firstSection) THEN Append(st.report, Separator)
             ELSE st.report
      skip == [report |-> rep, firstSection |-> st.firstSection]
  IN  IF kind = FLAG_C THEN
        [report |-> rep \o printCharacterAnalysis(D.chars.charFrequency,
                              D.chars.charFirstPos, D.fileSize, D.chars.uniqueCharCount),
         firstSection |-> 0]
      ELSE IF kind = FLAG_W THEN
        IF wordSectionDue(D.wordHead, D.totalWords)
        THEN [report |-> rep \o printWordAnalysis(D.heap, D.wordHead, D.totalWords, D.uniqueWords),
              firstSection |-> 0]
        ELSE skip
      ELSE IF kind = FLAG_L THEN
        IF lineSectionDue(D.lineHead, D.totalLines)
        THEN [report |-> rep \o printLineAnalysis(D.heap, D.lineHead, D.totalLines, D.uniqueLines),
              firstSection |-> 0]
        ELSE skip
      ELSE IF kind = FLAG_LW THEN
        IF D.wordHead # NULL
        THEN [report |-> rep \o printLongestWord(D.heap, D.wordHead), firstSection |-> 0]
        ELSE skip
      ELSE IF kind = FLAG_LL THEN
        IF D.lineHead # NULL
        THEN [report |-> rep \o printLongestLine(D.heap, D.lineHead), firstSection |-> 0]
        ELSE skip
      ELSE skip

\* the section loop from index i on
RECURSIVE emitFrom(_, _, _, _, _)
emitFrom(st, order, count, i, D) ==
  IF i >= count THEN st
  ELSE emitFrom(emitSection(st, order[i], D), order, count, i + 1, D)

----------------------------------------------------------------------------
(* Defaults of the variables a specification does not use *)

NoChars == [charFrequency |-> <<>>, charFirstPos |-> <<>>, uniqueCharCount |-> 0]

ListStart ==
  /\ heap = <<>> /\ freed = {}
  /\ wordHead = NULL /\ totalWords = 0 /\ uniqueWords = 0 /\ wordIndex = 0
  /\ lineHead = NULL /\ totalLines = 0 /\ uniqueLines = 0 /\ lineIndex = 0

\* no call of printLongestWord / printLongestLine is under way
NoLongest ==
  [kind |-> "none", head |-> NULL, current |-> NULL, maxLength |-> 0,
   longestWords |-> <<>>, longestCount |-> 0, i |-> 0, j |-> 0]

\* no tie buffer was allocated and no block was handed to free
NoMem == [ties |-> 0, released |-> <<>>]

\* malloc(sizeof(WORD *) * 1000): one more tie buffer
mallocTies(m) == [m EXCEPT !.ties = @ + 1]

\* variant: the tie buffer is not released
freeTies_never(m) == m

\* free(longestWords) / free(longestLines): the buffer allocated last
freeTies(m) == [m EXCEPT !.released = Append(@, <<"tie", m.ties>>)]

\* the tie buffer of the section of kind, if the section calls
\* printLongestWord / printLongestLine: allocated after the first loop,
\* released after the printing
sectionMemory(m, kind, D) ==
  IF \/ kind = FLAG_LW /\ D.wordHead # NULL
     \/ kind = FLAG_LL /\ D.lineHead # NULL
  THEN freeTies(mallocTies(m))
  ELSE m

\* variant: the text of an entry is not released
freeWordList_nodeOnly(h, head) ==
  LET ns == listNodes(h, head)
  IN  [k \in 1..Len(ns) |-> <<"node", ns[k]>>]

\* freeWordList / freeLineList: free(temp->contents), free(temp) for each
\* node from head on; the blocks handed to free, in order
freeWordList(h, head) ==
  LET ns == listNodes(h, head)
  IN  Concat([k \in 1..Len(ns) |-> <<<<"text", ns[k]>>, <<"node", ns[k]>>>>])

RunStart ==
  /\ longest = NoLongest /\ stdoutOpen = TRUE /\ mem = NoMem
  /\ chars = NoChars /\ fileSize = -1
  /\ inputOpen = FALSE /\ outputOpen = FALSE /\ created = {}
  /\ passLog = <<>> /\ emitIdx = 0 /\ firstSection = 1
  /\ report = <<>> /\ analyzeResult = -1 /\ exitCode = -1
  /\ batchFP = "none" /\ batchData = <<>> /\ batchCursor = 0
  /\ batchLine = <<>> /\ batchLog = <<>>

runVars == <<chars, fileSize, inputOpen, outputOpen, created, passLog,
             emitIdx, firstSection, report, analyzeResult, exitCode, batchVars,
             longest, stdoutOpen, mem>>

----------------------------------------------------------------------------
(* SpecBuild: buildWordList, then buildLineList, over every small file, one *)
(* loop iteration per step                                                  *)

InitBuild ==
  /\ pc = "words"
  /\ \E n \in 0..MaxFileLen : content \in SeqsOfLen(FileAlphabet, n)
  /\ cursor = 0
  /\ args = <<>> /\ ps = parseStart /\ errors = <<>>
  /\ ListStart
  /\ RunStart

\* one iteration of the while loop of buildWordList
\* variant: the buffer has room for any word
fitsBuffer_always(word) == TRUE

\* char buffer[MAX_WORD_LENGTH]: the word and its terminator are inside
fitsBuffer(word) == Len(word) + 1 <= MAX_WORD_LENGTH

BuildWordStep ==
  /\ pc = "words"
  /\ LET r == fscanfWord(content, cursor)
     IN  /\ r.ok
         /\ fitsBuffer(r.buffer)
         /\ LET ins == insertWord(heap, wordHead, r.buffer, wordIndex)
            IN  /\ heap' = ins.heap
                /\ wordHead' = ins.head
         /\ totalWords' = totalWords + 1
         /\ wordIndex' = wordIndex + 1
         /\ cursor' = r.pos
  /\ UNCHANGED <<pc, args, ps, errors, content, freed, uniqueWords,
                 lineHead, totalLines, uniqueLines, lineIndex, runVars>>

\* fscanf meets the end of file: count the nodes, return; the caller rewinds
BuildWordEnd ==
  /\ pc = "words"
  /\ ~fscanfWord(content, cursor).ok
  /\ uniqueWords' = countNodes(heap, wordHead)
  /\ cursor' = 0
  /\ pc' = "lines"
  /\ UNCHANGED <<args, ps, errors, content, heap, freed, wordHead, totalWords, wordIndex,
                 lineHead, totalLines, uniqueLines, lineIndex, runVars>>

\* one iteration of the while loop of buildLineList
BuildLineStep ==
  /\ pc = "lines"
  /\ LET r == fgetsLine(content, cursor)
     IN  /\ r.ok
         /\ LET ins == insertLine(heap, lineHead, stripNewline(r.buffer), lineIndex)
            IN  /\ heap' = ins.heap
                /\ lineHead' = ins.head
         /\ totalLines' = totalLines + 1
         /\ lineIndex' = lineIndex + 1
         /\ cursor' = r.pos
  /\ UNCHANGED <<pc, args, ps, errors, content, freed, uniqueLines,
                 wordHead, totalWords, uniqueWords, wordIndex, runVars>>

BuildLineEnd ==
  /\ pc = "lines"
  /\ ~fgetsLine(content, cursor).ok
  /\ uniqueLines' = countNodes(heap, lineHead)
  /\ cursor' = 0
  /\ pc' = "built"
  /\ UNCHANGED <<args, ps, errors, content, heap, freed, lineHead, totalLines, lineIndex,
                 wordHead, totalWords, uniqueWords, wordIndex, runVars>>

NextBuild == BuildWordStep \/ BuildWordEnd \/ BuildLineStep \/ BuildLineEnd

SpecBuild == InitBuild /\ [][NextBuild]_vars

----------------------------------------------------------------------------
(* Properties of the collections (SpecBuild) *)

\* the texts of a collection, read from the head through the next links
listTexts(h, head) ==
  LET ns == listNodes(h, head) IN [i \in 1..Len(ns) |-> h[ns[i]].contents]

RECURSIVE wordTokensFrom(_, _)
wordTokensFrom(data, pos) ==
  LET r == fscanfWord(data, pos)
  IN  IF r.ok THEN <<r.buffer>> \o wordTokensFrom(data, r.pos) ELSE <<>>

\* the words of a file, in file order
wordTokens(data) == wordTokensFrom(data, 0)

RECURSIVE lineTokensFrom(_, _)
lineTokensFrom(data, pos) ==
  LET r == fgetsLine(data, pos)
  IN  IF r.ok THEN <<stripNewline(r.buffer)>> \o lineTokensFrom(data, r.pos) ELSE <<>>

\* the lines of a file, in file order
lineTokens(data) == lineTokensFrom(data, 0)

Ascending(t) ==
  /\ \A i \in 1..(Len(t) - 1) : strcmp(t[i], t[i + 1]) < 0
  /\ \A i, j \in 1..Len(t) : i # j => t[i] # t[j]

\* C1: after every insertWord / insertLine call the collection, read from
\* the head through the next links, is in strictly ascending strcmp order of
\* text, hence no two of its entries have equal text.
C1_StrictlyAscending ==
  /\ Ascending(listTexts(heap, wordHead))
  /\ Ascending(listTexts(heap, lineHead))

\* three words were inserted: the largest, then one before the head, then
\* one between the two
C1_Witness ==
  LET ns == listNodes(heap, wordHead)
  IN  /\ Len(ns) = 3
      /\ heap[ns[1]].orderAppeared = 1
      /\ heap[ns[2]].orderAppeared = 2
      /\ heap[ns[3]].orderAppeared = 0

\* the collection holds one entry per distinct token of toks, with its
\* number of occurrences and the 0-based index of its first occurrence
CollectionMatches(h, head, toks) ==
  LET ns == listNodes(h, head)
      distinct == {toks[i] : i \in 1..Len(toks)}
  IN  /\ {h[n].contents : n \in Range(ns)} = distinct
      /\ Len(ns) = Cardinality(distinct)
      /\ \A k \in 1..Len(ns) :
           LET e == h[ns[k]]
               occ == {i \in 1..Len(toks) : toks[i] = e.contents}
           IN  /\ occ # {}
               /\ e.frequency = Cardinality(occ)
               /\ e.orderAppeared = Min(occ) - 1

OnlyFrequencyBumped(h, h2, head, head2, tok) ==
  LET holders == {n \in Range(listNodes(h, head)) : h[n].contents = tok}
  IN  holders # {} =>
        /\ head2 = head
        /\ \E n \in holders : h2 = [h EXCEPT ![n].frequency = h[n].frequency + 1]

\* C3: inserting a token whose text is already in the collection adds
\* exactly one to that entry's frequency and changes nothing else: its index
\* and text, every other entry, the links, the head and the number of
\* entries stay as they were.
C3_DuplicateInsertFrame ==
  [][/\ totalWords' = totalWords + 1 =>
          OnlyFrequencyBumped(heap, heap', wordHead, wordHead',
                              fscanfWord(content, cursor).buffer)
     /\ totalLines' = totalLines + 1 =>
          OnlyFrequencyBumped(heap, heap', lineHead, lineHead',
                              stripNewline(fgetsLine(content, cursor).buffer))]_vars

\* a word and a line have both been met a second time, later than other
\* tokens
C3_Witness ==
  /\ \E n \in Range(listNodes(heap, wordHead)) :
       heap[n].frequency >= 2 /\ heap[n].orderAppeared = 0 /\ countNodes(heap, wordHead) >= 2
  /\ \E n \in Range(listNodes(heap, lineHead)) :
       heap[n].frequency >= 2 /\ countNodes(heap, lineHead) >= 2

----------------------------------------------------------------------------
(* SpecParse: parseArguments over every short argument list, one argument   *)
(* per step                                                                 *)

InitParse ==
  /\ pc = "parse"
  /\ \E n \in 0..MaxParseArgs : args \in SeqsOfLen(ArgAlphabet, n)
  /\ ps = parseStart
  /\ errors = <<>>
  /\ content = <<>> /\ cursor = 0
  /\ ListStart
  /\ RunStart

\* one iteration of the for loop
ParseArg ==
  /\ pc = "parse"
  /\ ps.i <= Len(args)
  /\ ps' = parseStep(args, ps)
  /\ errors' = ps'.printed
  /\ pc' = IF ps'.ret = -1 THEN "parse" ELSE "parsed"
  /\ UNCHANGED <<args, content, cursor, freed, listVars, runVars>>

\* the loop has run off the end of the arguments
ParseEnd ==
  /\ pc = "parse"
  /\ ps.i > Len(args)
  /\ ps' = parseFinish(ps)
  /\ errors' = ps'.printed
  /\ pc' = "parsed"
  /\ UNCHANGED <<args, content, cursor, freed, listVars, runVars>>

NextParse == ParseArg \/ ParseEnd

SpecParse == InitParse /\ [][NextParse]_vars

----------------------------------------------------------------------------
(* Properties of parseArguments (SpecParse) *)

AnalysisFlags == {ArgC, ArgW, ArgL, ArgLw, ArgLl}

\* every argument is an analysis flag, or -f / -o followed by an operand
\* that does not begin with '-'
RECURSIVE WellShaped(_)
WellShaped(s) ==
  IF s = <<>> THEN TRUE
  ELSE IF Head(s) \in AnalysisFlags THEN WellShaped(Tail(s))
  ELSE IF Head(s) \in {ArgF, ArgO} /\ Len(s) >= 2 /\ ~beginsDash(s[2])
       THEN WellShaped(Tail(Tail(s)))
  ELSE FALSE

Occurs(flag, a) == \E k \in 1..Len(a) : a[k] = flag

\* C7: parseArguments ends in Valid exactly when every argument, scanned
\* left to right, is one of -c -w -l -Lw -Ll or is -f / -o followed by an
\* argument that does not begin with '-', and -f was seen; in the Valid state
\* a kind is requested iff its flag occurs.
C7_ValidExactly ==
  pc = "parsed" =>
    /\ ps.ret = 1 <=> (WellShaped(args) /\ Occurs(ArgF, args))
    /\ ps.ret = 1 =>
         /\ ps.requestCharAnalysis = 1 <=> Occurs(ArgC, args)
         /\ ps.requestWordAnalysis = 1 <=> Occurs(ArgW, args)
         /\ ps.requestLineAnalysis = 1 <=> Occurs(ArgL, args)
         /\ ps.requestLongestWord = 1 <=> Occurs(ArgLw, args)
         /\ ps.requestLongestLine = 1 <=> Occurs(ArgLl, args)
         /\ ps.inputFile # NULL

\* a Valid request of five arguments with an output file, -Lw and no -c
C7_Witness ==
  /\ pc = "parsed" /\ ps.ret = 1
  /\ ps.outputFile # NULL
  /\ ps.requestLongestWord = 1 /\ ps.requestCharAnalysis = 0
  /\ Len(args) = 5

\* argument k is where a left-to-right scan first goes wrong: what stands
\* before it is well shaped, and a[k] is -f / -o without a proper operand or
\* is no recognised flag
Offending(a, k) ==
  /\ WellShaped(SubSeq(a, 1, k - 1))
  /\ \/ a[k] \in {ArgF, ArgO} /\ ~(k + 1 <= Len(a) /\ ~beginsDash(a[k + 1]))
     \/ a[k] \notin AnalysisFlags \cup {ArgF, ArgO}

ErrorOf(arg) ==
  IF arg = ArgF THEN printNoInputFileError
  ELSE IF arg = ArgO THEN printNoOutputFileError
  ELSE printInvalidFlagError

\* C8: an invalid request reports exactly one error, that of the leftmost
\* offending argument, and the scan stops there: NoInputFile for -f and
\* NoOutputFile for -o with a missing or '-'-prefixed next argument,
\* InvalidFlag for any other unrecognised argument; NoInputFile for an
\* absent -f only when the whole list was scanned without another error.
C8_LeftmostError ==
  pc = "parsed" =>
    /\ ps.ret = 1 => errors = <<>>
    /\ ps.ret = 0 =>
         /\ Len(errors) = 1
         /\ \A k \in 1..Len(args) :
              Offending(args, k) => errors[1] = ErrorOf(args[k]) /\ ps.i = k
         /\ (\A k \in 1..Len(args) : ~Offending(args, k)) =>
              /\ errors[1] = printNoInputFileError
              /\ ps.i = Len(args) + 1
              /\ ~Occurs(ArgF, args)

\* -o with a flag-shaped operand is reported although an unrecognised flag
\* and a missing -f lie further right
C8_Witness ==
  /\ pc = "parsed" /\ ps.ret = 0
  /\ errors = <<printNoOutputFileError>>
  /\ ps.i = 2
  /\ args[1] = ArgW /\ args[2] = ArgO /\ Len(args) >= 4 /\ args[4] = PathIn

----------------------------------------------------------------------------
(* Spec: a single run, main -> parseArguments -> analyzeFile *)

Init ==
  /\ pc = "main"
  /\ \E n \in 0..MaxRunArgs : args \in SeqsOfLen(ArgAlphabet, n)
  /\ ps = parseStart
  /\ errors = <<>>
  /\ content = <<>> /\ cursor = 0
  /\ ListStart
  /\ RunStart

\* the artefacts of phase 1, as the section loop reads them
built ==
  [chars |-> chars, fileSize |-> fileSize, heap |-> heap,
   wordHead |-> wordHead, totalWords |-> totalWords, uniqueWords |-> uniqueWords,
   lineHead |-> lineHead, totalLines |-> totalLines, uniqueLines |-> uniqueLines]

\* main: argc < 3
MainUsage ==
  /\ pc = "main"
  /\ Len(args) + 1 < 3
  /\ errors' = Append(errors, printUsageError)
  /\ exitCode' = 1
  /\ pc' = "exit"
  /\ UNCHANGED <<mem, stdoutOpen, longest, batchVars, args, ps, content, cursor, freed, listVars, chars, fileSize, inputOpen,
                 outputOpen, created, passLog, emitIdx, firstSection, report, analyzeResult>>

\* variant: -B is looked for at every position
isBatchMode_anywhere(a) == \E k \in 1..Len(a) : a[k] = ArgB

\* strcmp(argv[1], "-B") == 0
isBatchMode(a) == a[1] = ArgB

\* main, single-run branch: the call of parseArguments
MainParse ==
  /\ pc = "main"
  /\ Len(args) + 1 >= 3
  /\ ~isBatchMode(args)
  /\ ps' = parseArguments(args)
  /\ errors' = errors \o ps'.printed
  /\ IF ps'.ret = 0
     THEN exitCode' = 1 /\ pc' = "exit"
     ELSE exitCode' = exitCode /\ pc' = "openInput"
  /\ UNCHANGED <<mem, stdoutOpen, longest, batchVars, args, content, cursor, freed, listVars, chars, fileSize, inputOpen,
                 outputOpen, created, passLog, emitIdx, firstSection, report, analyzeResult>>

\* the files a run may find under its input path
RunFiles == UNION {SeqsOfLen(RunFileAlphabet, n) : n \in 0..MaxRunFileLen}

\* variant: the output is opened before the size of the input is looked at
afterInputOpen_output == "openOutput"

\* the size check follows the fopen of the input
afterInputOpen == "checkEmpty"

\* analyzeFile: fopen(inputFile, "r"); the file is absent or unreadable, or
\* it holds the bytes of one of files
OpenInputFrom(files) ==
  /\ pc = "openInput"
  /\ \/ /\ errors' = Append(errors, printInputFileError)
        /\ analyzeResult' = 0
        /\ pc' = "return"
        /\ UNCHANGED <<content, cursor, inputOpen>>
     \/ /\ content' \in files
        /\ cursor' = 0
        /\ inputOpen' = TRUE
        /\ pc' = afterInputOpen
        /\ UNCHANGED <<errors, analyzeResult>>
  /\ UNCHANGED <<mem, stdoutOpen, longest, batchVars, args, ps, freed, listVars, chars, fileSize, outputOpen, created,
                 passLog, emitIdx, firstSection, report, exitCode>>

OpenInput == OpenInputFrom(RunFiles)

\* variant: the stream is left where the reading stopped
seekStart_left(data) == Len(data)

\* fseek(inputFP, 0, SEEK_SET) on a stream that delivers data
seekStart(data) == 0

\* variant: the test never succeeds
isEmptyFile_never(size) == size < 0

\* if (fileSize == 0)
isEmptyFile(size) == size = 0

\* analyzeFile: fseek to the end, ftell, fseek back; an empty file is an error
CheckEmpty ==
  /\ pc = "checkEmpty"
  /\ fileSize' = Len(content)
  /\ cursor' = seekStart(content)
  /\ IF isEmptyFile(fileSize')
     THEN /\ errors' = Append(errors, printInputFileEmptyError)
          /\ inputOpen' = FALSE
          /\ analyzeResult' = 0
          /\ pc' = "return"
     ELSE /\ pc' = "openOutput"
          /\ UNCHANGED <<errors, inputOpen, analyzeResult>>
  /\ UNCHANGED <<mem, stdoutOpen, longest, batchVars, args, ps, content, freed, listVars, chars, outputOpen, created,
                 passLog, emitIdx, firstSection, report, exitCode>>

\* variant: no return after the message, the run goes on
afterOutputError_goOn == "chars"

\* "return 0" after fopen(outputFile, "w") failed
afterOutputError == "return"

\* analyzeFile: outputFP is stdout, or fopen(outputFile, "w") fails, or it
\* creates / truncates the file
OpenOutput ==
  /\ pc = "openOutput"
  /\ \/ /\ ps.outputFile = NULL
        /\ pc' = "chars"
        /\ UNCHANGED <<errors, inputOpen, outputOpen, created, analyzeResult>>
     \/ /\ ps.outputFile # NULL
        /\ errors' = Append(errors, printOutputFileError)
        /\ inputOpen' = FALSE
        /\ analyzeResult' = 0
        /\ pc' = afterOutputError
        /\ UNCHANGED <<outputOpen, created>>
     \/ /\ ps.outputFile # NULL
        /\ outputOpen' = TRUE
        /\ created' = created \cup {args[ps.outputFile]}
        /\ pc' = "chars"
        /\ UNCHANGED <<errors, inputOpen, analyzeResult>>
  /\ UNCHANGED <<mem, stdoutOpen, longest, batchVars, args, ps, content, cursor, freed, listVars, chars, fileSize,
                 passLog, emitIdx, firstSection, report, exitCode>>

\* what a pass over the input stream can be given.  When the output path is
\* the input path, fopen(outputFile, "w") has truncated the file under the
\* open input stream: a pass then reads what the stream still holds in its
\* buffer, or nothing
streamData ==
  IF ps.outputFile # NULL /\ args[ps.outputFile] = args[ps.inputFile]
  THEN {content, <<>>} ELSE {content}

\* analyzeFile, phase 1: the character tally, if -c was requested
PassChars ==
  /\ pc = "chars"
  /\ IF ps.requestCharAnalysis # 0
     THEN \E data \in streamData :
          /\ chars' = analyzeCharacters(data, cursor)
          /\ passLog' = Append(passLog, [pass |-> "chars", start |-> cursor, data |-> data])
          /\ cursor' = seekStart(data)
     ELSE UNCHANGED <<chars, passLog, cursor>>
  /\ pc' = "words"
  /\ UNCHANGED <<mem, stdoutOpen, longest, batchVars, args, ps, errors, content, freed, listVars, fileSize, inputOpen,
                 outputOpen, created, emitIdx, firstSection, report, analyzeResult, exitCode>>

\* analyzeFile, phase 1: the word list, if -w or -Lw was requested
PassWords ==
  /\ pc = "words"
  /\ IF ps.requestWordAnalysis # 0 \/ ps.requestLongestWord # 0
     THEN \E data \in streamData :
          LET r == buildWordList(heap, data, cursor)
          IN  /\ heap' = r.heap
              /\ wordHead' = r.head
              /\ totalWords' = r.total
              /\ uniqueWords' = r.unique
              /\ wordIndex' = r.index
              /\ passLog' = Append(passLog, [pass |-> "words", start |-> cursor, data |-> data])
              /\ cursor' = seekStart(data)
     ELSE UNCHANGED <<heap, wordHead, totalWords, uniqueWords, wordIndex, passLog, cursor>>
  /\ pc' = "lines"
  /\ UNCHANGED <<mem, stdoutOpen, longest, batchVars, args, ps, errors, content, freed, lineHead, totalLines, uniqueLines,
                 lineIndex, chars, fileSize, inputOpen, outputOpen, created,
                 emitIdx, firstSection, report, analyzeResult, exitCode>>

\* analyzeFile, phase 1: the line list, if -l or -Ll was requested
PassLines ==
  /\ pc = "lines"
  /\ IF ps.requestLineAnalysis # 0 \/ ps.requestLongestLine # 0
     THEN \E data \in streamData :
          LET r == buildLineList(heap, data, cursor)
          IN  /\ heap' = r.heap
              /\ lineHead' = r.head
              /\ totalLines' = r.total
              /\ uniqueLines' = r.unique
              /\ lineIndex' = r.index
              /\ passLog' = Append(passLog, [pass |-> "lines", start |-> cursor, data |-> data])
              /\ cursor' = seekStart(data)
     ELSE UNCHANGED <<heap, lineHead, totalLines, uniqueLines, lineIndex, passLog, cursor>>
  /\ emitIdx' = 0
  /\ firstSection' = 1
  /\ pc' = "emit"
  /\ UNCHANGED <<mem, stdoutOpen, longest, batchVars, args, ps, errors, content, freed, wordHead, totalWords, uniqueWords,
                 wordIndex, chars, fileSize, inputOpen, outputOpen, created,
                 report, analyzeResult, exitCode>>

\* analyzeFile, phase 2: one iteration of the section loop
EmitSection ==
  /\ pc = "emit"
  /\ emitIdx < ps.flagCount
  /\ LET st == emitSection([report |-> report, firstSection |-> firstSection],
                           ps.flagOrder[emitIdx], built)
     IN  /\ report' = st.report
         /\ firstSection' = st.firstSection
  /\ mem' = sectionMemory(mem, ps.flagOrder[emitIdx], built)
  /\ emitIdx' = emitIdx + 1
  /\ UNCHANGED <<stdoutOpen, longest, batchVars, pc, args, ps, errors, content, cursor, freed, listVars, chars, fileSize,
                 inputOpen, outputOpen, created, passLog, analyzeResult, exitCode>>

\* variant: fclose(outputFP) whatever outputFP is
closesOutput_always(outputFile) == TRUE

\* if (outputFile != NULL) fclose(outputFP)
closesOutput(outputFile) == outputFile # NULL

\* analyzeFile: free both lists, close the files, return 1
Cleanup ==
  /\ pc = "emit"
  /\ emitIdx >= ps.flagCount
  /\ freed' = freed \cup Range(listNodes(heap, wordHead)) \cup Range(listNodes(heap, lineHead))
  /\ mem' = [mem EXCEPT !.released = @ \o (IF wordHead # NULL THEN freeWordList(heap, wordHead) ELSE <<>>)
                                         \o (IF lineHead # NULL THEN freeWordList(heap, lineHead) ELSE <<>>)]
  /\ inputOpen' = FALSE
  /\ IF closesOutput(ps.outputFile)
     THEN IF ps.outputFile # NULL
          THEN outputOpen' = FALSE /\ UNCHANGED stdoutOpen
          ELSE stdoutOpen' = FALSE /\ UNCHANGED outputOpen
     ELSE UNCHANGED <<outputOpen, stdoutOpen>>
  /\ analyzeResult' = 1
  /\ pc' = "return"
  /\ UNCHANGED <<longest, batchVars, args, ps, errors, content, cursor, listVars, chars, fileSize, created,
                 passLog, emitIdx, firstSection, report, exitCode>>

\* variant: the result of analyzeFile handed on as the exit code
mainResult_asIs(result) == result

\* (analyzeResult == 1) ? 0 : 1
mainResult(result) == IF result = 1 THEN 0 ELSE 1

\* main: return (analyzeResult == 1) ? 0 : 1, when analyzeFile was called by
\* main and not by processBatchFile
MainReturn ==
  /\ pc = "return"
  /\ batchFP # "open"
  /\ exitCode' = mainResult(analyzeResult)
  /\ pc' = "exit"
  /\ UNCHANGED <<mem, stdoutOpen, longest, batchVars, args, ps, errors, content, cursor, freed, listVars, chars, fileSize,
                 inputOpen, outputOpen, created, passLog, emitIdx, firstSection,
                 report, analyzeResult>>

Next ==
  \/ MainUsage \/ MainParse
  \/ OpenInput \/ CheckEmpty \/ OpenOutput
  \/ PassChars \/ PassWords \/ PassLines
  \/ EmitSection \/ Cleanup
  \/ MainReturn

Spec == Init /\ [][Next]_vars

----------------------------------------------------------------------------
(* Properties of a run (Spec) *)

Finished == pc = "exit" /\ analyzeResult = 1

KindOfFlag(arg) ==
  IF arg = ArgC THEN FLAG_C
  ELSE IF arg = ArgW THEN FLAG_W
  ELSE IF arg = ArgL THEN FLAG_L
  ELSE IF arg = ArgLw THEN FLAG_LW
  ELSE FLAG_LL

SectionStarts ==
  {"Total Number of Chars", "Total Number of Words", "Total Number of Lines",
   "Longest Word", "Longest Line"}

KindOfStart(t) ==
  IF t = "Total Number of Chars" THEN FLAG_C
  ELSE IF t = "Total Number of Words" THEN FLAG_W
  ELSE IF t = "Total Number of Lines" THEN FLAG_L
  ELSE IF t = "Longest Word" THEN FLAG_LW
  ELSE FLAG_LL

\* the kinds of the sections of a report, in the order they stand in it
sectionKinds(rep) ==
  LET starts == SelectSeq(rep, LAMBDA it : it.t \in SectionStarts)
  IN  [k \in 1..Len(starts) |-> KindOfStart(starts[k].t)]

\* the analysis kinds of an argument list in the order of the first
\* appearance of their flags
FirstAppearance(a) ==
  LET firsts == SelectSeq([k \in 1..Len(a) |-> k],
                          LAMBDA k : /\ a[k] \in AnalysisFlags
                                     /\ \A j \in 1..(k - 1) : a[j] # a[k])
  IN  [i \in 1..Len(firsts) |-> KindOfFlag(a[firsts[i]])]

\* what a section of a kind holds, from the artefacts alone
SectionOf(kind) ==
  IF kind = FLAG_C
  THEN printCharacterAnalysis(chars.charFrequency, chars.charFirstPos, fileSize,
                              chars.uniqueCharCount)
  ELSE IF kind = FLAG_W THEN printWordAnalysis(heap, wordHead, totalWords, uniqueWords)
  ELSE IF kind = FLAG_L THEN printLineAnalysis(heap, lineHead, totalLines, uniqueLines)
  ELSE IF kind = FLAG_LW THEN printLongestWord(heap, wordHead)
  ELSE printLongestLine(heap, lineHead)

\* the bytes the pass of a name was given
passData(name) ==
  LET p == SelectSeq(passLog, LAMBDA e : e.pass = name) IN p[1].data

\* a longest-word / longest-line section is left out when the input gave no
\* word / no line
HasSection(kind) ==
  /\ kind = FLAG_LW => wordTokens(passData("words")) # <<>>
  /\ kind = FLAG_LL => lineTokens(passData("lines")) # <<>>

\* C4: the sections of the report stand in the order in which their flags
\* first appeared in the argument list, whatever that order is, and what
\* each section holds depends on its kind and the file only.
C4_SectionsInFlagOrder ==
  Finished =>
    LET kinds == SelectSeq(FirstAppearance(args), HasSection)
    IN  /\ sectionKinds(report) = kinds
        /\ SelectSeq(report, LAMBDA it : it # Separator)
             = Concat([k \in 1..Len(kinds) |-> SectionOf(kinds[k])])

\* the longest-line section stands before the longest-word section, against
\* the canonical order of the kinds
C4_Witness ==
  /\ Finished
  /\ sectionKinds(report) = <<FLAG_LL, FLAG_LW>>
  /\ Len(args) = 4 /\ args[3] = ArgLl /\ args[4] = ArgLw

\* C5: exactly one separator stands between every two consecutive sections
\* of the report, none before the first section and none after the last; a
\* kind that is skipped writes no separator.
C5_SeparatorsOnlyBetween ==
  Finished =>
    /\ report # <<>> => report[1] # Separator /\ report[Len(report)] # Separator
    /\ \A k \in 1..(Len(report) - 1) :
         report[k] = Separator => report[k + 1].t \in SectionStarts
    /\ \A k \in 2..Len(report) :
         report[k].t \in SectionStarts => report[k - 1] = Separator

\* C6 as claimed: every requested kind whose collection is empty (-w and
\* -Lw without words, -l and -Ll without lines) has no section in the report
\* of the run, which succeeds.
C6_EmptyCollectionSkipped ==
  Finished =>
    LET kinds == Range(sectionKinds(report))
    IN  /\ ps.requestWordAnalysis = 1 /\ wordHead = NULL => FLAG_W \notin kinds
        /\ ps.requestLongestWord = 1 /\ wordHead = NULL => FLAG_LW \notin kinds
        /\ ps.requestLineAnalysis = 1 /\ lineHead = NULL => FLAG_L \notin kinds
        /\ ps.requestLongestLine = 1 /\ lineHead = NULL => FLAG_LL \notin kinds

\* the items of the section of a kind in a report
sectionItems(rep, kind) ==
  SelectSeq(rep, LAMBDA it : it.t \in SectionStarts /\ KindOfStart(it.t) = kind)

\* C6 as amended: a requested -Lw / -Ll whose collection is empty is skipped
\* without error; a requested -w / -l is never skipped: over an empty
\* collection it writes its two header lines with total 0 and unique 0 and
\* no entry.
C6_OnlyLongestSkipped ==
  Finished =>
    LET kinds == Range(sectionKinds(report))
    IN  /\ errors = <<>> /\ exitCode = 0
        /\ ps.requestLongestWord = 1 =>
             (wordHead = NULL <=> wordTokens(passData("words")) = <<>>)
        /\ ps.requestLongestLine = 1 =>
             (lineHead = NULL <=> lineTokens(passData("lines")) = <<>>)
        /\ ps.requestLongestWord = 1 /\ wordHead = NULL => FLAG_LW \notin kinds
        /\ ps.requestLongestLine = 1 /\ lineHead = NULL => FLAG_LL \notin kinds
        /\ ps.requestWordAnalysis = 1 => FLAG_W \in kinds
        /\ ps.requestLineAnalysis = 1 => FLAG_L \in kinds
        /\ ps.requestWordAnalysis = 1 /\ wordHead = NULL =>
             /\ sectionItems(report, FLAG_W) = <<item("Total Number of Words", <<>>, 0, 0)>>
             /\ \A k \in 1..Len(report) : report[k].t # "Word"
             /\ item("Total Unique Words", <<>>, 0, 0) \in Range(report)
        /\ ps.requestLineAnalysis = 1 /\ lineHead = NULL =>
             /\ \A k \in 1..Len(report) : report[k].t # "Line"
             /\ item("Total Unique Lines", <<>>, 0, 0) \in Range(report)

\* -w and -Lw over a file of white space only: the word section is written,
\* the longest-word section is not
C6_Witness ==
  /\ Finished
  /\ ps.requestWordAnalysis = 1 /\ ps.requestLongestWord = 1
  /\ fileSize > 0 /\ wordHead = NULL /\ passData("words") = content
  /\ sectionKinds(report) = <<FLAG_W>>

\* what a parse of a yields, with the two paths resolved and the order list
\* cut to its flagCount entries
Outcome(a) ==
  LET st == parseArguments(a)
  IN  [ret |-> st.ret, printed |-> st.printed,
       input |-> IF st.inputFile = NULL THEN <<>> ELSE <<a[st.inputFile]>>,
       output |-> IF st.outputFile = NULL THEN <<>> ELSE <<a[st.outputFile]>>,
       requests |-> <<st.requestCharAnalysis, st.requestWordAnalysis,
                      st.requestLineAnalysis, st.requestLongestWord,
                      st.requestLongestLine>>,
       order |-> [k \in 1..st.flagCount |-> st.flagOrder[k - 1]],
       overflow |-> st.overflow]

\* a with x put in as its p-th argument
InsertAt(a, p, x) == SubSeq(a, 1, p - 1) \o <<x>> \o SubSeq(a, p, Len(a))

\* the lists that a with one more occurrence of an analysis flag can be: the
\* flag occurs in a before the place p where it is put in
Repeats(a) ==
  {InsertAt(a, p, a[q]) : <<q, p>> \in
     {qp \in (1..Len(a)) \X (2..(Len(a) + 1)) : qp[1] < qp[2] /\ a[qp[1]] \in AnalysisFlags}}

\* the same, where the new occurrence does not directly follow a -f or -o
RepeatsAsFlag(a) ==
  {InsertAt(a, p, a[q]) : <<q, p>> \in
     {qp \in (1..Len(a)) \X (2..(Len(a) + 1)) :
        /\ qp[1] < qp[2] /\ a[qp[1]] \in AnalysisFlags
        /\ a[qp[2] - 1] \notin {ArgF, ArgO}}}

\* the report the section loop writes for the order list of a parse of e,
\* over the artefacts of this run
ReportFor(e) ==
  LET st == parseArguments(e)
  IN  emitFrom([report |-> <<>>, firstSection |-> 1], st.flagOrder, st.flagCount, 0, built).report

NoKindTwice(order) == \A i, j \in 1..Len(order) : i # j => order[i] # order[j]

\* adding the occurrences in E changes neither the parse result nor the
\* order list nor the report, and the order list holds no kind twice
RepeatsChangeNothing(E) ==
  /\ pc = "main" =>
       /\ NoKindTwice(Outcome(args).order)
       /\ \A e \in E : Outcome(e) = Outcome(args)
  /\ Finished => \A e \in E : ReportFor(e) = report

\* C9 as claimed: for any argument list, one more occurrence of an analysis
\* flag that occurs earlier, put anywhere after it, changes neither the parse
\* result nor the order list nor the report, and causes no error.
C9_RepeatAnywhere == RepeatsChangeNothing(Repeats(args))

\* C9 as amended: the same, for a further occurrence that does not directly
\* follow a -f or -o (where it would be read as the operand of that option).
C9_RepeatIsNoOp == RepeatsChangeNothing(RepeatsAsFlag(args))

\* a run that was given -w twice: one word section, one entry in the order
\* list
C9_Witness ==
  /\ Finished
  /\ Len(args) = 4 /\ args[3] = ArgW /\ args[4] = ArgW
  /\ ps.flagCount = 1
  /\ sectionKinds(report) = <<FLAG_W>>
  /\ InsertAt(args, 4, ArgW) \in RepeatsAsFlag(args)

\* C10: a valid request whose input file exists and has zero bytes gives the
\* InputFileEmpty error and nothing else, and exit code 1, whichever flags
\* were requested: no analysis pass runs, no section is written.
C10_EmptyInputOnlyError ==
  fileSize = 0 =>
    /\ ps.ret = 1
    /\ pc \in {"return", "exit"}
    /\ errors = <<printInputFileEmptyError>>
    /\ analyzeResult = 0
    /\ pc = "exit" => exitCode = 1
    /\ passLog = <<>> /\ heap = <<>> /\ chars = NoChars
    /\ report = <<>>

\* an empty file, with -c and -Ll requested: the run has ended
C10_Witness ==
  /\ pc = "exit" /\ fileSize = 0 /\ exitCode = 1
  /\ ps.requestCharAnalysis = 1 /\ ps.requestLongestLine = 1

\* the seven messages of a single run
RunErrors ==
  {printUsageError, printInvalidFlagError, printNoInputFileError, printNoOutputFileError,
   printInputFileError, printInputFileEmptyError, printOutputFileError}

\* C11: a single run ends with exit code 0 exactly when the arguments were
\* Valid and analyzeFile completed without error, and with exit code 1 after
\* every error (usage, invalid flag, no input file, no output file, input
\* cannot be opened, input empty, output cannot be opened); an error is what
\* printed one of the seven messages.
C11_ExitCode ==
  pc = "exit" =>
    /\ exitCode \in {0, 1}
    /\ exitCode = 0 <=> (ps.ret = 1 /\ analyzeResult = 1)
    /\ exitCode = 0 <=> errors = <<>>
    /\ exitCode = 0 =>
         /\ Len(args) >= 2 /\ WellShaped(args) /\ Occurs(ArgF, args)
         /\ fileSize > 0
         /\ ps.outputFile # NULL => args[ps.outputFile] \in created
    /\ exitCode = 1 =>
         /\ Len(errors) = 1 /\ errors[1] \in RunErrors
         /\ errors[1] = printUsageError <=> Len(args) < 2
         /\ errors[1] \in {printInvalidFlagError, printNoInputFileError,
                            printNoOutputFileError} <=> ps.ret = 0
         /\ errors[1] \in {printInputFileError, printInputFileEmptyError,
                            printOutputFileError} <=> analyzeResult = 0
         /\ errors[1] = printInputFileEmptyError <=> fileSize = 0
         /\ errors[1] = printInputFileError <=> (ps.ret = 1 /\ fileSize = -1)

\* a Valid request whose input was read and whose output file could not be
\* opened: exit code 1
C11_Witness ==
  /\ pc = "exit" /\ exitCode = 1
  /\ ps.ret = 1 /\ fileSize > 0
  /\ errors = <<printOutputFileError>>

----------------------------------------------------------------------------
(* Batch mode: main with -B, processBatchFile *)

MAX_BATCH_LINE_LENGTH == 10000

MAX_TOKENS == 100

printBatchOpenError == "ERROR: Can't open batch file"

printBatchEmptyError == "ERROR: Batch File Empty"

\* fgets(batchLine, MAX_BATCH_LINE_LENGTH, batchFP)
fgetsBatch(data, pos) ==
  LET to == scanLine(data, pos, MAX_BATCH_LINE_LENGTH - 1)
  IN  [ok |-> pos < Len(data), buffer |-> SubSeq(data, pos + 1, to), pos |-> to]

\* strtok(lineCopy, " ") and strtok(NULL, " "): the tokens are the maximal
\* runs of bytes other than the delimiter; a token begins where such a byte
\* stands first in the line or after a delimiter
tokenStarts(line) == {k \in 1..Len(line) : line[k] # SP /\ (k = 1 \/ line[k - 1] = SP)}

\* the token that begins at from: up to the next delimiter or the end
tokenAt(line, from) ==
  SubSeq(line, from, Min({k \in from..Len(line) : k = Len(line) \/ line[k + 1] = SP}))

\* the while loop around strtok: tokens[1 .. tokenCount], the tokens of the
\* line from left to right, at most MAX_TOKENS of them
strtokLoop(line) ==
  LET starts == tokenStarts(line)
      tokenCount == Min({Cardinality(starts), MAX_TOKENS})
  IN  [i \in 1..tokenCount |->
         tokenAt(line, CHOOSE s \in starts : Cardinality({t \in starts : t < s}) = i - 1)]

\* variant: a file whose first line is blank counts as empty
batchFileEmpty_blankFirst(r) == ~r.ok \/ r.buffer = <<NL>>

\* fgets(...) == NULL on the first read
batchFileEmpty(r) == ~r.ok

\* "continue" in the do-while loop: on to the loop condition
afterBlankLine == "batchFetch"

\* if (batchArgc >= 3)
lineHasRequest(batchArgc) == batchArgc >= 3

\* variant: a line that fails ends the loop
afterFailedLine_break == "batchClose"

\* a line without a request, or one whose parse failed: on to the loop
\* condition
afterFailedLine == "batchFetch"

\* variant: the exit code tells whether a line failed
batchResult_failures(log) ==
  IF \E k \in 1..Len(log) : log[k].errors # <<>> THEN 1 ELSE 0

\* main: processBatchFile(argv[2]); return 0;
batchResult(log) == 0

\* what the log keeps of a line: the line without its newline, its tokens,
\* the result of parseArguments and of analyzeFile (-1: not called), the
\* messages printed for it and whether a report item was written for it
logEntry(line, tokens, ret, printed) ==
  [line |-> line, tokens |-> tokens, ret |-> ret, result |-> -1,
   errors |-> printed, wrote |-> FALSE]

\* the control file's name, the requests and the lines of the cases
PathCtl == <<99, 116, 108>>

CaseRequests ==
  {<<ArgC>>, <<ArgX, PathIn>>, <<ArgF, PathIn>>, <<ArgF, PathIn, ArgC>>,
   <<ArgF, PathIn, ArgO, PathIn, ArgC>>, <<ArgC, ArgF, PathIn, ArgO, PathOut>>}

\* the tokens of a request, one space between two
joined(tokens) ==
  Concat([k \in 1..Len(tokens) |-> IF k = 1 THEN tokens[k] ELSE <<SP>> \o tokens[k]])

CaseLines == {<<>>} \cup {joined(t) : t \in CaseRequests}

\* the control file of the lines ls, the last one ended by end
fileOf(ls, end) ==
  Concat([k \in 1..Len(ls) |-> ls[k] \o (IF k < Len(ls) THEN <<NL>> ELSE end)])

\* the input files of the cases: empty, white space only, two words
CaseFiles == {<<>>, <<NL>>, <<98, SP, 97>>}

----------------------------------------------------------------------------
(* SpecBatch: main over the cases, in batch mode and in single-run mode *)

ControlFiles ==
  UNION {{fileOf(ls, end) : ls \in SeqsOfLen(CaseLines, n), end \in {<<>>, <<NL>>}} :
           n \in 0..MaxBatchLines}

InitBatch ==
  /\ pc = "main"
  /\ args \in {<<ArgB>>, <<ArgB, PathCtl>>} \cup CaseRequests
  /\ ps = parseStart
  /\ errors = <<>>
  /\ content = <<>> /\ cursor = 0
  /\ ListStart
  /\ RunStart

analyzeVars == <<content, cursor, heap, freed, wordHead, totalWords, uniqueWords, wordIndex,
                 lineHead, totalLines, uniqueLines, lineIndex, chars, fileSize,
                 inputOpen, outputOpen, passLog, emitIdx, firstSection, report,
                 analyzeResult, mem>>

\* main, batch branch, and processBatchFile up to the first fgets; the
\* control file cannot be opened, or it holds the bytes of one of files
MainBatchFrom(files) ==
  /\ pc = "main"
  /\ Len(args) + 1 >= 3
  /\ isBatchMode(args)
  /\ \/ /\ errors' = Append(errors, printBatchOpenError)
        /\ batchFP' = "failed"
        /\ pc' = "batchReturn"
        /\ UNCHANGED <<batchData, batchCursor, batchLine>>
     \/ \E data \in files :
          LET r == fgetsBatch(data, 0)
          IN  /\ batchData' = data
              /\ batchCursor' = r.pos
              /\ IF batchFileEmpty(r)
                 THEN /\ errors' = Append(errors, printBatchEmptyError)
                      /\ batchFP' = "closed"
                      /\ pc' = "batchReturn"
                      /\ UNCHANGED batchLine
                 ELSE /\ batchLine' = r.buffer
                      /\ batchFP' = "open"
                      /\ pc' = "batchLine"
                      /\ UNCHANGED errors
  /\ UNCHANGED <<mem, stdoutOpen, longest, args, ps, analyzeVars, created, exitCode, batchLog>>

MainBatch == MainBatchFrom(ControlFiles)

\* the blocks allocated in h and m
allocated(h, m) ==
  {<<"text", k>> : k \in 1..Len(h)} \cup {<<"node", k>> : k \in 1..Len(h)}
    \cup {<<"tie", j>> : j \in 1..m.ties}

\* every block allocated was handed to free, once: the allocator is as it
\* was when the program started
settled(h, m) ==
  /\ Range(m.released) = allocated(h, m)
  /\ Len(m.released) = Cardinality(allocated(h, m))

\* variant: what the call before wrote is still in the sink
FreshCall_reportKept ==
  /\ content' = <<>> /\ cursor' = 0
  /\ wordHead' = NULL /\ totalWords' = 0 /\ uniqueWords' = 0 /\ wordIndex' = 0
  /\ lineHead' = NULL /\ totalLines' = 0 /\ uniqueLines' = 0 /\ lineIndex' = 0
  /\ chars' = NoChars /\ fileSize' = -1
  /\ UNCHANGED <<inputOpen, outputOpen>>
  /\ passLog' = <<>> /\ emitIdx' = 0 /\ firstSection' = 1
  /\ report' = report /\ analyzeResult' = -1
  /\ IF settled(heap, mem) THEN heap' = <<>> /\ freed' = {} /\ mem' = NoMem
     ELSE UNCHANGED <<heap, freed, mem>>

\* the values the locals of analyzeFile have when a call begins; the streams
\* of the process are as the call before left them
FreshCall ==
  /\ content' = <<>> /\ cursor' = 0
  /\ wordHead' = NULL /\ totalWords' = 0 /\ uniqueWords' = 0 /\ wordIndex' = 0
  /\ lineHead' = NULL /\ totalLines' = 0 /\ uniqueLines' = 0 /\ lineIndex' = 0
  /\ chars' = NoChars /\ fileSize' = -1
  /\ UNCHANGED <<inputOpen, outputOpen>>
  /\ passLog' = <<>> /\ emitIdx' = 0 /\ firstSection' = 1
  /\ report' = <<>> /\ analyzeResult' = -1
  /\ IF settled(heap, mem) THEN heap' = <<>> /\ freed' = {} /\ mem' = NoMem
     ELSE UNCHANGED <<heap, freed, mem>>

\* the body of the do-while loop up to the call of analyzeFile
BatchLine ==
  /\ pc = "batchLine"
  /\ \E line \in {stripNewline(batchLine)} : \E tokens \in {strtokLoop(line)} :
     LET batchArgc == Len(tokens) + 1
         st == parseArguments(tokens)
     IN  /\ batchLine' = line
         /\ IF Len(line) = 0
            THEN /\ pc' = afterBlankLine
                 /\ UNCHANGED <<args, ps, errors, batchLog, analyzeVars>>
            ELSE IF ~lineHasRequest(batchArgc)
            THEN /\ pc' = afterFailedLine
                 /\ batchLog' = Append(batchLog, logEntry(line, tokens, -1, <<>>))
                 /\ UNCHANGED <<args, ps, errors, analyzeVars>>
            ELSE /\ args' = tokens
                 /\ ps' = st
                 /\ errors' = errors \o st.printed
                 /\ batchLog' = Append(batchLog, logEntry(line, tokens, st.ret, st.printed))
                 /\ IF st.ret = 1
                    THEN pc' = "openInput" /\ FreshCall
                    ELSE pc' = afterFailedLine /\ UNCHANGED analyzeVars
  /\ UNCHANGED <<stdoutOpen, longest, created, exitCode, batchFP, batchData, batchCursor>>

\* analyzeFile has returned to processBatchFile, which ignores its result
BatchLineDone ==
  /\ pc = "return"
  /\ batchFP = "open"
  /\ LET k == Len(batchLog)
         mark == Len(errors) - (IF analyzeResult = 1 THEN 0 ELSE 1)
     IN  batchLog' = [batchLog EXCEPT ![k].result = analyzeResult,
                                      ![k].errors = SubSeq(errors, mark + 1, Len(errors)),
                                      ![k].wrote = report # <<>>]
  /\ FreshCall
  /\ pc' = "batchFetch"
  /\ UNCHANGED <<stdoutOpen, longest, args, ps, errors, created, exitCode,
                 batchFP, batchData, batchCursor, batchLine>>

\* the loop condition: fgets(batchLine, MAX_BATCH_LINE_LENGTH, batchFP) != NULL
BatchFetch ==
  /\ pc = "batchFetch"
  /\ LET r == fgetsBatch(batchData, batchCursor)
     IN  IF r.ok
         THEN /\ batchLine' = r.buffer
              /\ batchCursor' = r.pos
              /\ pc' = "batchLine"
         ELSE /\ pc' = "batchClose"
              /\ UNCHANGED <<batchLine, batchCursor>>
  /\ UNCHANGED <<mem, stdoutOpen, longest, args, ps, errors, analyzeVars, created, exitCode,
                 batchFP, batchData, batchLog>>

\* fclose(batchFP) after the loop
BatchClose ==
  /\ pc = "batchClose"
  /\ batchFP' = "closed"
  /\ pc' = "batchReturn"
  /\ UNCHANGED <<mem, stdoutOpen, longest, args, ps, errors, analyzeVars, created, exitCode,
                 batchData, batchCursor, batchLine, batchLog>>

\* main: return 0 after processBatchFile
BatchReturn ==
  /\ pc = "batchReturn"
  /\ exitCode' = batchResult(batchLog)
  /\ pc' = "exit"
  /\ UNCHANGED <<mem, stdoutOpen, longest, args, ps, errors, analyzeVars, created, batchVars>>

OpenInputCase == OpenInputFrom(CaseFiles)

NextBatch ==
  \/ MainUsage \/ MainParse \/ MainBatch
  \/ BatchLine \/ BatchLineDone \/ BatchFetch \/ BatchClose \/ BatchReturn
  \/ OpenInputCase \/ CheckEmpty \/ OpenOutput
  \/ PassChars \/ PassWords \/ PassLines
  \/ EmitSection \/ Cleanup
  \/ MainReturn

SpecBatch == InitBatch /\ [][NextBatch]_vars

----------------------------------------------------------------------------
(* Properties of requests and of the batch driver (SpecBatch) *)

RECURSIVE SumLen(_)
SumLen(ss) == IF ss = <<>> THEN 0 ELSE Len(Head(ss)) + SumLen(Tail(ss))

\* the messages printed for the request in hand: all of them in a single
\* run, those after the messages of the earlier lines in a batch
requestErrors ==
  IF batchFP = "open" /\ batchLog # <<>>
  THEN LET before == SumLen([k \in 1..(Len(batchLog) - 1) |-> batchLog[k].errors])
       IN  SubSeq(errors, before + 1, Len(errors))
  ELSE errors

NoReportOnError ==
  /\ requestErrors # <<>> => report = <<>>
  /\ pc = "emit" => requestErrors = <<>> /\ analyzeResult = -1
  /\ report # <<>> => pc \in {"emit", "return", "exit"} /\ analyzeResult \in {-1, 1}
  /\ report # <<>> /\ pc \in {"return", "exit"} => analyzeResult = 1
  /\ report # <<>> /\ pc = "exit" => exitCode = 0
  /\ \A k \in 1..Len(batchLog) :
       /\ batchLog[k].errors # <<>> => ~batchLog[k].wrote /\ batchLog[k].result # 1
       /\ batchLog[k].wrote => batchLog[k].ret = 1 /\ batchLog[k].result = 1

EmissionCompletes ==
  /\ pc = "emit" => /\ pc' \in {"emit", "return"}
                    /\ errors' = errors
                    /\ pc' = "return" => analyzeResult' = 1
  /\ errors' # errors => report = <<>> /\ report' = <<>>
  /\ report' # report /\ report' # <<>> => pc = "emit"

\* C12: a request that ends in an error, in a single run or on a batch line,
\* writes no report item: every message is printed while the report is
\* still empty, and once the section loop has been entered no message is
\* printed any more and analyzeFile returns 1.
C12_NoPartialReport == [][NoReportOnError' /\ EmissionCompletes]_vars

\* a batch whose first line wrote a report and whose second line failed at
\* the opening of its output file, writing nothing
C12_Witness ==
  /\ pc = "exit" /\ Len(batchLog) = 2
  /\ batchLog[1].wrote
  /\ batchLog[2].errors = <<printOutputFileError>> /\ ~batchLog[2].wrote

\* the newline-delimited records of a file, a last record without a newline
\* included
RECURSIVE recordsFrom(_, _)
recordsFrom(data, pos) ==
  IF pos >= Len(data) THEN <<>>
  ELSE LET nls == {k \in (pos + 1)..Len(data) : data[k] = NL}
           end == IF nls = {} THEN Len(data) + 1 ELSE Min(nls)
       IN  <<SubSeq(data, pos + 1, end - 1)>> \o recordsFrom(data, end)

nonBlankLines(data) == SelectSeq(recordsFrom(data, 0), LAMBDA l : l # <<>>)

\* the lines the driver has taken up, in the order it took them up
attempted == [k \in 1..Len(batchLog) |-> batchLog[k].line]

IsPrefix(s, t) == Len(s) <= Len(t) /\ s = SubSeq(t, 1, Len(s))

\* the driver is scheduled as long as it can take a step
SpecBatchFair == SpecBatch /\ WF_vars(NextBatch)

\* C13: once the control file is open, the driver comes to its end with
\* every non-blank line taken up exactly once and in file order, whatever
\* the earlier lines came to (too few tokens, parse error, input that cannot
\* be opened or is empty, output that cannot be opened, success); a line of
\* two or more tokens is taken up by a call of parseArguments.
C13_EveryLineAttempted ==
  /\ [](IsPrefix(attempted, nonBlankLines(batchData)))
  /\ (batchFP = "open") ~>
       (/\ pc = "exit" /\ batchFP = "closed"
        /\ attempted = nonBlankLines(batchData)
        /\ \A k \in 1..Len(batchLog) :
             Len(batchLog[k].tokens) >= 2 => batchLog[k].ret \in {0, 1})

\* the batch is over; its first line failed in analyzeFile, its second line
\* was taken up after that
C13_Witness ==
  /\ pc = "exit" /\ batchFP = "closed"
  /\ Len(batchLog) = 2
  /\ batchLog[1].result = 0 /\ batchLog[1].errors # <<>>
  /\ batchLog[2].ret = 1 /\ batchLog[2].result = 1

\* the tokens form a Valid request
validRequest(tokens) == WellShaped(tokens) /\ Occurs(ArgF, tokens)

\* C14: every line taken up that does not form a valid request, whatever
\* its number of tokens, has a message printed for it before the driver
\* moves on.
C14_InvalidLineReported ==
  \A k \in 1..Len(batchLog) :
    ~validRequest(batchLog[k].tokens) => batchLog[k].errors # <<>>

\* what a single run prints for the arguments a before analyzeFile, and
\* whether it goes on to analyzeFile
singleRun(a) ==
  IF Len(a) + 1 < 3 THEN [printed |-> <<printUsageError>>, analyzed |-> FALSE]
  ELSE LET st == parseArguments(a)
       IN  [printed |-> st.printed, analyzed |-> st.ret = 1]

\* C17: a line is handled as a single run with the same arguments: the same
\* messages before analyzeFile, analyzeFile called in the same cases and on
\* the same request, whose locals start afresh whatever the earlier lines
\* left behind.
C17_LineAsSingleRun ==
  /\ \A k \in 1..Len(batchLog) :
       LET e == batchLog[k]
       IN  /\ e.result = -1 => e.errors = singleRun(e.tokens).printed
           /\ (e.ret = 1) = singleRun(e.tokens).analyzed
  /\ batchFP = "open" /\ pc = "openInput" =>
       /\ ps = parseArguments(args) /\ args = batchLog[Len(batchLog)].tokens
       /\ wordHead = NULL /\ lineHead = NULL /\ report = <<>> /\ fileSize = -1
       /\ passLog = <<>> /\ firstSection = 1 /\ emitIdx = 0

\* C15: a batch invocation ends with exit code 0 however many lines failed,
\* after every non-blank line of an opened control file was taken up; a
\* line that is not a valid request, or that failed, leaves no report, and
\* a report is left only by a valid line that succeeded.
C15_BatchExitsZero ==
  pc = "exit" /\ batchFP # "none" =>
    /\ exitCode = 0
    /\ batchFP = "closed" => attempted = nonBlankLines(batchData)
    /\ batchFP = "failed" => batchLog = <<>>
    /\ \A k \in 1..Len(batchLog) :
         LET e == batchLog[k]
         IN  /\ e.wrote => validRequest(e.tokens) /\ e.result = 1 /\ e.errors = <<>>
             /\ e.errors # <<>> => ~e.wrote /\ e.result # 1

\* a control file of one invalid line and one valid line: the exit code is
\* 0 and the valid line alone left a report
C15_Witness ==
  /\ pc = "exit" /\ exitCode = 0 /\ Len(batchLog) = 2
  /\ ~validRequest(batchLog[1].tokens) /\ batchLog[1].errors # <<>>
  /\ ~batchLog[1].wrote
  /\ validRequest(batchLog[2].tokens) /\ batchLog[2].wrote

\* the messages of the log's entries, in the order of the lines
loggedErrors(log) == Concat([k \in 1..Len(log) |-> log[k].errors])

\* the driver stands between two lines, or is done
betweenLines == pc \in {"batchFetch", "batchClose", "batchReturn", "exit"}

\* C16: the driver prints the open error when the control file cannot be
\* opened and the empty-file error exactly when the opened file holds no
\* line, and handles no request in either case; a line that is empty once
\* its newline is removed gets no entry and no message, and the lines after
\* it are still read.
C16_OpenAndEmptyErrors ==
  /\ batchFP = "failed" => errors = <<printBatchOpenError>> /\ batchLog = <<>>
  /\ Occurs(printBatchOpenError, errors) <=> batchFP = "failed"
  /\ Occurs(printBatchEmptyError, errors) <=>
       batchFP \in {"open", "closed"} /\ batchData = <<>>
  /\ Occurs(printBatchEmptyError, errors) =>
       errors = <<printBatchEmptyError>> /\ batchLog = <<>>
  /\ \A k \in 1..Len(batchLog) : batchLog[k].line # <<>>
  /\ batchFP \in {"open", "closed"} /\ batchData # <<>> /\ betweenLines =>
       errors = loggedErrors(batchLog)
  /\ batchFP = "closed" /\ batchData # <<>> =>
       batchCursor = Len(batchData) /\ attempted = nonBlankLines(batchData)

\* a control file whose first line is blank and whose second line was
\* handled: no message for the blank line, a report for the other
C16_Witness ==
  /\ pc = "exit" /\ batchFP = "closed"
  /\ Len(batchData) > 1 /\ batchData[1] = NL
  /\ Len(batchLog) = 1 /\ batchLog[1].wrote /\ errors = <<>>

\* the items of the report with tag t, in the order written
itemsOf(t) == SelectSeq(report, LAMBDA it : it.t = t)

RECURSIVE SumCounts(_)
SumCounts(items) ==
  IF items = <<>> THEN 0 ELSE Head(items).n + SumCounts(Tail(items))

\* C18: in a character section the counts of the listed characters sum to
\* the reported total, the number of listed characters is the reported
\* unique count, and the characters listed are the byte values present in
\* the input, each once, in ascending order.
C18_CharSectionAgrees ==
  itemsOf("Total Number of Chars") # <<>> =>
    LET listed == itemsOf("Char")
    IN  /\ Len(itemsOf("Total Number of Chars")) = 1
        /\ Len(itemsOf("Total Unique Chars")) = 1
        /\ SumCounts(listed) = itemsOf("Total Number of Chars")[1].n
        /\ Len(listed) = itemsOf("Total Unique Chars")[1].n
        /\ \A k \in 1..(Len(listed) - 1) : listed[k].s[1] < listed[k + 1].s[1]
        /\ {listed[k].s[1] : k \in 1..Len(listed)}
             = {content[i] : i \in 1..Len(content)}
        /\ \A k \in 1..Len(listed) : listed[k].n > 0

----------------------------------------------------------------------------
(* SpecTally: analyzeCharacters over every small stream, one iteration of   *)
(* its while loop per step; chars holds the arrays and the two counters     *)

InitTally ==
  /\ pc = "tally"
  /\ \E n \in 0..MaxFileLen : content \in SeqsOfLen(FileAlphabet, n)
  /\ cursor = 0
  /\ chars = charStart
  /\ longest = NoLongest /\ stdoutOpen = TRUE /\ mem = NoMem
  /\ args = <<>> /\ ps = parseStart /\ errors = <<>>
  /\ ListStart
  /\ fileSize = -1 /\ inputOpen = TRUE /\ outputOpen = FALSE /\ created = {}
  /\ passLog = <<>> /\ emitIdx = 0 /\ firstSection = 1
  /\ report = <<>> /\ analyzeResult = -1 /\ exitCode = -1
  /\ batchFP = "none" /\ batchData = <<>> /\ batchCursor = 0
  /\ batchLine = <<>> /\ batchLog = <<>>

tallyFrame == <<mem, stdoutOpen, longest, args, ps, errors, content, freed, listVars, fileSize, inputOpen,
                outputOpen, created, passLog, emitIdx, firstSection, report,
                analyzeResult, exitCode, batchVars>>

\* fgetc returned a byte
TallyStep ==
  /\ pc = "tally"
  /\ cursor < Len(content)
  /\ chars' = charStep(chars, content[cursor + 1])
  /\ cursor' = cursor + 1
  /\ UNCHANGED <<pc, tallyFrame>>

\* fgetc returned EOF
TallyEnd ==
  /\ pc = "tally"
  /\ cursor >= Len(content)
  /\ pc' = "tallied"
  /\ UNCHANGED <<chars, cursor, tallyFrame>>

NextTally == TallyStep \/ TallyEnd

SpecTally == InitTally /\ [][NextTally]_vars

\* the 0-based offsets of the byte value c among the bytes read so far
offsetsRead(c) == {i \in 0..(cursor - 1) : content[i + 1] = c}

\* the tally agrees with the bytes read so far
TallyOfPrefix ==
  /\ chars.charPosition = cursor
  /\ \A c \in 0..(ASCII_RANGE - 1) :
       /\ chars.charFrequency[c] = Cardinality(offsetsRead(c))
       /\ chars.charFrequency[c] > 0 =>
            /\ chars.charFirstPos[c] \in offsetsRead(c)
            /\ \A i \in offsetsRead(c) : chars.charFirstPos[c] <= i
  /\ chars.uniqueCharCount
       = Cardinality({c \in 0..(ASCII_RANGE - 1) : offsetsRead(c) # {}})

\* a step leaves the first position of every value seen before as it was,
\* and adds one to the unique count exactly when the byte read is new
FirstPositionKept ==
  /\ \A c \in 0..(ASCII_RANGE - 1) :
       chars.charFrequency[c] > 0 => chars'.charFirstPos[c] = chars.charFirstPos[c]
  /\ cursor' = cursor + 1 =>
       chars'.uniqueCharCount
         = chars.uniqueCharCount
           + (IF chars.charFrequency[content[cursor + 1]] = 0 THEN 1 ELSE 0)

\* C19: throughout the character scan the frequency of a value is its
\* number of occurrences so far, its first position is the 0-based offset of
\* its first occurrence and is never overwritten, and the unique count is
\* the number of distinct values, incremented once per new value.
C19_TallyOfStream ==
  /\ [](pc \in {"tally", "tallied"} => TallyOfPrefix)
  /\ [][FirstPositionKept]_vars

\* the scan is over and met the value 97 three times, first at offset 1
C19_Witness ==
  /\ pc = "tallied" /\ cursor = Len(content)
  /\ chars.charFrequency[97] = 3 /\ chars.charFirstPos[97] = 1
  /\ chars.uniqueCharCount = 2

----------------------------------------------------------------------------
(* SpecLongest: printLongestWord / printLongestLine on the collections of   *)
(* a file, one loop iteration per step.  The two functions are the same     *)
(* text on the word list and on the line list; longest.kind tells which     *)
(* one is running.                                                          *)

\* malloc(sizeof(WORD *) * 1000): the slots of longestWords / longestLines
LONGEST_CAPACITY == 1000

\* the number of entries of the file of many tied entries
TiedEntries == 1002

\* the loop iterations a step of the two list walks takes at most
LoopBurst == 64

\* the k-th five-digit numeral
numeral(k) ==
  <<48 + ((k \div 10000) % 10), 48 + ((k \div 1000) % 10), 48 + ((k \div 100) % 10),
    48 + ((k \div 10) % 10), 48 + (k % 10)>>

\* the file of the numerals 0 .. n - 1, one per line, in ascending order
tiedFile(n) ==
  [p \in 1..(6 * n) |-> IF p % 6 = 0 THEN NL ELSE numeral((p - 1) \div 6)[p % 6]]

\* the list the build leaves for that file, its nodes at base + 1 ..
\* base + n of the heap: every token is new and greater than those before
\* it, so that each is linked in after the last node
tiedCollection(n, base) ==
  [k \in 1..n |->
     [contents |-> numeral(k - 1), numChars |-> 5, frequency |-> 1,
      orderAppeared |-> k - 1,
      nextWord |-> IF k < n THEN base + k + 1 ELSE NULL,
      prevWord |-> IF k > 1 THEN base + k - 1 ELSE NULL]]

InitLongest ==
  /\ pc = "longest"
  /\ cursor = 0
  /\ args = <<>> /\ ps = parseStart /\ errors = <<>>
  /\ freed = {}
  /\ \/ \E n \in 0..MaxFileLen : content \in SeqsOfLen(FileAlphabet, n)
     \/ content = tiedFile(TiedEntries)
  /\ \E kind \in {"Word", "Line"} :
       \* the list of the kind is built, as for a request of -Lw or of -Ll
       /\ LET b == IF Len(content) > MaxFileLen + 1
                   THEN [heap |-> tiedCollection(TiedEntries, 0), head |-> 1,
                         total |-> TiedEntries, unique |-> TiedEntries,
                         index |-> TiedEntries]
                   ELSE IF kind = "Word" THEN buildWordList(<<>>, content, 0)
                   ELSE buildLineList(<<>>, content, 0)
              none == [head |-> NULL, total |-> 0, unique |-> 0, index |-> 0]
              w == IF kind = "Word" THEN b ELSE none
              l == IF kind = "Line" THEN b ELSE none
          IN  /\ heap = b.heap
              /\ wordHead = w.head /\ totalWords = w.total
              /\ uniqueWords = w.unique /\ wordIndex = w.index
              /\ lineHead = l.head /\ totalLines = l.total
              /\ uniqueLines = l.unique /\ lineIndex = l.index
              /\ longest = [NoLongest EXCEPT !.kind = kind, !.head = b.head]
  /\ chars = NoChars /\ fileSize = Len(content)
  /\ inputOpen = TRUE /\ outputOpen = FALSE /\ created = {}
  /\ passLog = <<>> /\ emitIdx = 0 /\ firstSection = 1
  /\ report = <<>> /\ analyzeResult = -1 /\ exitCode = -1
  /\ batchFP = "none" /\ batchData = <<>> /\ batchCursor = 0
  /\ batchLine = <<>> /\ batchLog = <<>>
  /\ stdoutOpen = TRUE /\ mem = NoMem

longestFrame == <<stdoutOpen, args, ps, errors, content, cursor, freed, listVars, chars, fileSize,
                  inputOpen, outputOpen, created, passLog, emitIdx, firstSection,
                  analyzeResult, exitCode, batchVars>>

\* if (wordHead == NULL) return; otherwise maxLength = 0, current = wordHead
LongestEnter ==
  /\ pc = "longest"
  /\ IF longest.head = NULL
     THEN pc' = "longestDone" /\ UNCHANGED longest
     ELSE /\ pc' = "findMax"
          /\ longest' = [longest EXCEPT !.maxLength = 0, !.current = longest.head]
  /\ UNCHANGED <<mem, report, longestFrame>>

\* up to fuel iterations of the first while loop
RECURSIVE findMaxLoop(_, _, _)
findMaxLoop(h, st, fuel) ==
  IF fuel = 0 \/ st.current = NULL THEN st
  ELSE findMaxLoop(h, [st EXCEPT
                         !.maxLength = IF h[st.current].numChars > st.maxLength
                                       THEN h[st.current].numChars ELSE @,
                         !.current = h[st.current].nextWord],
                   fuel - 1)

\* the first while loop, at most LoopBurst iterations at a time
FindMaxStep ==
  /\ pc = "findMax"
  /\ longest.current # NULL
  /\ longest' = findMaxLoop(heap, longest, LoopBurst)
  /\ UNCHANGED <<mem, pc, report, longestFrame>>

\* the first loop is over: the array is allocated, current = wordHead
FindMaxEnd ==
  /\ pc = "findMax"
  /\ longest.current = NULL
  /\ longest' = [longest EXCEPT !.longestWords = <<>>, !.longestCount = 0,
                                !.current = longest.head]
  /\ mem' = mallocTies(mem)
  /\ pc' = "collect"
  /\ UNCHANGED <<report, longestFrame>>

\* longestWords[longestCount++] stays inside the allocated array
slotFree(count) == count < LONGEST_CAPACITY

\* if (current->numChars == maxLength)
isTied(numChars, max) == numChars = max

\* the store of the iteration at hand would go past the last slot
overruns(h, st) ==
  /\ st.current # NULL
  /\ isTied(h[st.current].numChars, st.maxLength)
  /\ ~slotFree(st.longestCount)

\* variant: a tied entry is stored in front of those found before it
RECURSIVE collectLoop_reversed(_, _, _)
collectLoop_reversed(h, st, fuel) ==
  IF fuel = 0 \/ st.current = NULL \/ overruns(h, st) THEN st
  ELSE LET tied == isTied(h[st.current].numChars, st.maxLength)
       IN  collectLoop_reversed(h, [st EXCEPT
                             !.longestWords = IF tied THEN <<st.current>> \o @ ELSE @,
                             !.longestCount = IF tied THEN @ + 1 ELSE @,
                             !.current = h[st.current].nextWord],
                       fuel - 1)

\* up to fuel iterations of the second while loop; it stops in front of a
\* store past the last slot of the array
RECURSIVE collectLoop(_, _, _)
collectLoop(h, st, fuel) ==
  IF fuel = 0 \/ st.current = NULL \/ overruns(h, st) THEN st
  ELSE LET tied == isTied(h[st.current].numChars, st.maxLength)
       IN  collectLoop(h, [st EXCEPT
                             !.longestWords = IF tied THEN Append(@, st.current) ELSE @,
                             !.longestCount = IF tied THEN @ + 1 ELSE @,
                             !.current = h[st.current].nextWord],
                       fuel - 1)

\* the second while loop, at most LoopBurst iterations at a time
CollectStep ==
  /\ pc = "collect"
  /\ longest.current # NULL
  /\ ~overruns(heap, longest)
  /\ longest' = collectLoop(heap, longest, LoopBurst)
  /\ UNCHANGED <<mem, pc, report, longestFrame>>

\* the store past the last slot of the array: from here the behaviour of
\* the program is undefined
CollectOverrun ==
  /\ pc = "collect"
  /\ overruns(heap, longest)
  /\ pc' = "overrun"
  /\ UNCHANGED <<mem, stdoutOpen, longest, report, longestFrame>>

\* the second loop is over: i = 0, j = 1 (here counted from 1)
CollectEnd ==
  /\ pc = "collect"
  /\ longest.current = NULL
  /\ longest' = [longest EXCEPT !.i = 1, !.j = 2]
  /\ pc' = "sort"
  /\ UNCHANGED <<mem, report, longestFrame>>

\* one iteration of the inner for loop, or the step of the outer one
SortStep ==
  /\ pc = "sort"
  /\ longest.i < longest.longestCount
  /\ LET a == longest.longestWords
         i == longest.i
         j == longest.j
     IN  IF j > longest.longestCount
         THEN longest' = [longest EXCEPT !.i = i + 1, !.j = i + 2]
         ELSE IF strcmp(heap[a[i]].contents, heap[a[j]].contents) > 0
         THEN longest' = [longest EXCEPT !.longestWords = [a EXCEPT ![i] = a[j], ![j] = a[i]],
                                         !.j = j + 1]
         ELSE longest' = [longest EXCEPT !.j = j + 1]
  /\ UNCHANGED <<mem, pc, report, longestFrame>>

\* the outer loop is over: the header, one line per entry of the array, free
PrintLongest ==
  /\ pc = "sort"
  /\ longest.i >= longest.longestCount
  /\ report' = report
       \o <<item("Longest " \o longest.kind, <<>>, longest.maxLength, 0)>>
       \o [k \in 1..longest.longestCount |->
             item("Longest " \o longest.kind \o " Entry",
                  heap[longest.longestWords[k]].contents, 0, 0)]
  /\ mem' = freeTies(mem)
  /\ pc' = "longestDone"
  /\ UNCHANGED <<longest, longestFrame>>

NextLongest ==
  \/ LongestEnter \/ FindMaxStep \/ FindMaxEnd \/ CollectStep \/ CollectOverrun
  \/ CollectEnd \/ SortStep \/ PrintLongest

SpecLongest == InitLongest /\ [][NextLongest]_vars

\* the texts of the collection the call was given
entryTexts ==
  LET ns == listNodes(heap, longest.head)
  IN  {heap[ns[k]].contents : k \in 1..Len(ns)}

\* the call has come to rest
longestAtRest == pc \in {"longestDone", "overrun"}

\* C20: for any non-empty collection the section names the greatest length
\* of an entry and lists the entries of that length, all of them, each
\* once, in ascending order.
C20_LongestSection ==
  longestAtRest /\ longest.head # NULL =>
    LET max == CHOOSE n \in {Len(t) : t \in entryTexts} :
                 \A t \in entryTexts : Len(t) <= n
        listed == SubSeq(report, 2, Len(report))
    IN  /\ pc = "longestDone"
        /\ report # <<>>
        /\ report[1] = item("Longest " \o longest.kind, <<>>, max, 0)
        /\ {listed[k].s : k \in 1..Len(listed)} = {t \in entryTexts : Len(t) = max}
        /\ \A k \in 1..(Len(listed) - 1) : strcmp(listed[k].s, listed[k + 1].s) < 0

----------------------------------------------------------------------------
(* Order of appearance (SpecBuild) *)

\* the rearrangements of 1 .. n
Perms(n) == {f \in [1..n -> 1..n] : \A i, j \in 1..n : f[i] = f[j] => i = j}

\* insertWord for each token of toks in turn, starting from the empty list
RECURSIVE insertAll(_, _)
insertAll(toks, st) ==
  IF toks = <<>> THEN st
  ELSE LET ins == insertWord(st.heap, st.head, Head(toks), st.index)
       IN  insertAll(Tail(toks), [heap |-> ins.heap, head |-> ins.head,
                                  index |-> st.index + 1])

\* text and frequency of the entries, read from the head
textsAndFrequencies(h, head) ==
  LET ns == listNodes(h, head)
  IN  [i \in 1..Len(ns) |-> <<h[ns[i]].contents, h[ns[i]].frequency>>]

\* the collection and the longest section are those of every rearrangement
\* of the tokens
SameForAllOrders(toks, head) ==
  \A f \in Perms(Len(toks)) :
    LET r == insertAll([i \in 1..Len(toks) |-> toks[f[i]]],
                       [heap |-> <<>>, head |-> NULL, index |-> 0])
    IN  /\ textsAndFrequencies(r.heap, r.head) = textsAndFrequencies(heap, head)
        /\ printLongestWord(r.heap, r.head) = printLongestWord(heap, head)

\* the entries of a longest section stand in ascending order
TiedAscending(section) ==
  \A k \in 2..(Len(section) - 1) : strcmp(section[k].s, section[k + 1].s) < 0

\* C21: the texts and frequencies of a built collection, and the entries of
\* its longest section, are the same for every order in which the same
\* tokens are inserted, and tied longest entries stand in ascending order
\* whichever appeared first.
C21_OrderOfAppearanceIrrelevant ==
  pc = "built" =>
    /\ SameForAllOrders(wordTokens(content), wordHead)
    /\ SameForAllOrders(lineTokens(content), lineHead)
    /\ TiedAscending(printLongestWord(heap, wordHead))
    /\ TiedAscending(printLongestWord(heap, lineHead))

\* the words c, a, b in that order: three tied longest words, of which the
\* greatest appeared first
C21_Witness ==
  /\ pc = "built"
  /\ wordTokens(content) = <<(<<99>>), (<<97>>), (<<98>>)>>
  /\ Len(printLongestWord(heap, wordHead)) = 4
  /\ printLongestWord(heap, wordHead)[2].s = <<97>>

----------------------------------------------------------------------------
(* The report as a function of the arguments and the file *)

\* the section loop of analyzeFile over the artefacts D
RECURSIVE emitLoop(_, _, _, _)
emitLoop(st, order, i, D) ==
  IF i >= order.flagCount THEN st.report
  ELSE emitLoop(emitSection(st, order.flagOrder[i], D), order, i + 1, D)

\* what a run of the arguments a writes when its input stream delivers data
\* and its files open
runReport(a, data) ==
  LET st == parseArguments(a)
      none == [heap |-> <<>>, head |-> NULL, total |-> 0, unique |-> 0]
      c == IF st.requestCharAnalysis # 0 THEN analyzeCharacters(data, 0) ELSE NoChars
      w == IF st.requestWordAnalysis # 0 \/ st.requestLongestWord # 0
           THEN buildWordList(<<>>, data, 0) ELSE none
      l == IF st.requestLineAnalysis # 0 \/ st.requestLongestLine # 0
           THEN buildLineList(w.heap, data, 0)
           ELSE [heap |-> w.heap, head |-> NULL, total |-> 0, unique |-> 0]
  IN  emitLoop([report |-> <<>>, firstSection |-> 1], st, 0,
               [chars |-> c, fileSize |-> Len(data), heap |-> l.heap,
                wordHead |-> w.head, totalWords |-> w.total, uniqueWords |-> w.unique,
                lineHead |-> l.head, totalLines |-> l.total, uniqueLines |-> l.unique])

\* the request in hand writes to the file it reads
outputIsInput ==
  ps.outputFile # NULL /\ ps.inputFile # NULL /\ args[ps.outputFile] = args[ps.inputFile]

\* C22: what a valid request writes and how it ends are fixed by its
\* argument list and the bytes of its input file, whatever ran before it:
\* a run that succeeds has written exactly the report of its arguments and
\* file, and a run over a non-empty file fails only when its output cannot
\* be opened, with nothing written.
C22_SameRunSameOutput ==
  pc = "return" /\ ~outputIsInput =>
    /\ analyzeResult \in {0, 1}
    /\ analyzeResult = 1 => content # <<>> /\ report = runReport(args, content)
    /\ analyzeResult = 0 =>
         /\ report = <<>>
         /\ content # <<>> => errors[Len(errors)] = printOutputFileError

\* the second of two equal lines of a control file has succeeded on the
\* file of the first, after the first wrote its report
C22_Witness ==
  /\ pc = "return" /\ analyzeResult = 1 /\ report # <<>>
  /\ Len(batchLog) = 2 /\ batchLog[1].tokens = batchLog[2].tokens
  /\ batchLog[1].wrote /\ ~outputIsInput
  /\ content = <<98, SP, 97>>

\* C23: in every word section and every line section the number after
\* "Total Unique" is the number of entry lines of the section, and both are
\* the number of entries linked in the collection that was printed.
C23_UniqueIsListed ==
  /\ Len(itemsOf("Total Unique Words")) <= 1
  /\ Len(itemsOf("Total Unique Lines")) <= 1
  /\ itemsOf("Total Unique Words") # <<>> =>
       /\ itemsOf("Total Unique Words")[1].n = Len(itemsOf("Word"))
       /\ Len(itemsOf("Word")) = Len(listNodes(heap, wordHead))
  /\ itemsOf("Total Unique Lines") # <<>> =>
       /\ itemsOf("Total Unique Lines")[1].n = Len(itemsOf("Line"))
       /\ Len(itemsOf("Line")) = Len(listNodes(heap, lineHead))
  /\ itemsOf("Total Unique Words") = <<>> => itemsOf("Word") = <<>>
  /\ itemsOf("Total Unique Lines") = <<>> => itemsOf("Line") = <<>>

\* a word section and a line section were written, the line section with
\* two entries for two lines, while the heap holds three nodes
C23_Witness ==
  /\ pc = "exit"
  /\ itemsOf("Total Unique Words") # <<>>
  /\ itemsOf("Total Unique Lines") # <<>>
  /\ itemsOf("Total Unique Lines")[1].n = 2
  /\ Len(heap) = 3

----------------------------------------------------------------------------
(* SpecLines: buildLineList alone, as for a request of -l, over every small *)
(* file and over a file whose one record fills the line buffer              *)

\* MAX_LINE_LENGTH - 1 letters and a newline: one record
LongRecordFile == [k \in 1..MAX_LINE_LENGTH |-> IF k = MAX_LINE_LENGTH THEN NL ELSE 97]

InitLines ==
  /\ pc = "lines"
  /\ \/ \E n \in 0..MaxFileLen : content \in SeqsOfLen(FileAlphabet, n)
     \/ content = LongRecordFile
  /\ cursor = 0
  /\ args = <<>> /\ ps = parseStart /\ errors = <<>>
  /\ ListStart
  /\ RunStart

NextLines == BuildLineStep \/ BuildLineEnd

SpecLines == InitLines /\ [][NextLines]_vars

\* C24: the line tokens are the newline-delimited records of the file: the
\* total is the number of records, and the collection holds each distinct
\* record whole, without its newline, the empty record included, with its
\* number of occurrences and the index of its first occurrence.
C24_LinesAreRecords ==
  pc = "built" =>
    LET records == recordsFrom(content, 0)
    IN  /\ totalLines = Len(records)
        /\ lineIndex = Len(records)
        /\ uniqueLines = Cardinality(Range(records))
        /\ CollectionMatches(heap, lineHead, records)

\* the passes a request asks for, in the order analyzeFile runs them
passesDue ==
  SelectSeq(<<"chars", "words", "lines">>,
            LAMBDA p : \/ p = "chars" /\ ps.requestCharAnalysis # 0
                       \/ p = "words" /\ (ps.requestWordAnalysis # 0 \/ ps.requestLongestWord # 0)
                       \/ p = "lines" /\ (ps.requestLineAnalysis # 0 \/ ps.requestLongestLine # 0))

\* the pass read the whole of what its stream delivered
readToEnd(e) ==
  /\ e.pass = "chars" =>
       \A c \in 0..(ASCII_RANGE - 1) :
         chars.charFrequency[c] = Cardinality({i \in 1..Len(e.data) : e.data[i] = c})
  /\ e.pass = "words" => totalWords = Len(wordTokens(e.data))
  /\ e.pass = "lines" => totalLines = Len(lineTokens(e.data))

\* C25: within a request every pass that runs starts reading at offset zero
\* and reads to the end of the file, whichever passes run and whatever the
\* order of the flags: the cursor is at zero after the emptiness check and
\* after each pass, and the passes are those requested, each once, in the
\* order characters, words, lines.
C25_PassesStartAtZero ==
  /\ \A k \in 1..Len(passLog) : passLog[k].start = 0 /\ readToEnd(passLog[k])
  /\ pc \in {"openOutput", "chars", "words", "lines", "emit"} => cursor = 0
  /\ pc \in {"emit", "return", "exit"} /\ analyzeResult # 0 /\ passLog # <<>> =>
       [k \in 1..Len(passLog) |-> passLog[k].pass] = passesDue
  /\ pc = "emit" => [k \in 1..Len(passLog) |-> passLog[k].pass] = passesDue

\* the line flag stands before the word flag; the word pass ran first and
\* the line pass after it, both from offset zero over the whole file
C25_Witness ==
  /\ pc = "exit" /\ analyzeResult = 1
  /\ Len(args) = 4 /\ args[1] = ArgL /\ args[4] = ArgW
  /\ Len(passLog) = 2
  /\ passLog[1].pass = "words" /\ passLog[2].pass = "lines"
  /\ passLog[2].start = 0 /\ Len(passLog[2].data) = MaxRunFileLen

----------------------------------------------------------------------------
(* File handles *)

\* no call of analyzeFile is under way
outsideAnalyzeFile ==
  pc \in {"main", "return", "batchLine", "batchFetch", "batchClose", "batchReturn", "exit"}

\* C26: the input handle and a named output handle are closed on every return
\* path of analyzeFile, on success and on each error; the standard output
\* stream is never closed; no handle of one batch line is open when the next
\* line starts; the control-file handle is closed on every return path of
\* processBatchFile on which it was opened
C26_HandlesClosed ==
  /\ stdoutOpen
  /\ outsideAnalyzeFile => ~inputOpen /\ ~outputOpen
  /\ pc \in {"batchReturn", "exit"} => batchFP # "open"

\* a batch run has ended whose first line stopped at an empty input file and
\* whose second line wrote its report to standard output
C26_Witness ==
  /\ pc = "exit"
  /\ batchFP = "closed"
  /\ Len(batchLog) = 2
  /\ batchLog[1].errors = <<printInputFileEmptyError>>
  /\ batchLog[2].wrote
  /\ batchLog[2].tokens = <<ArgF, PathIn, ArgC>>

----------------------------------------------------------------------------
(* SpecMemory: batch runs whose lines build collections and tie buffers *)

MemoryRequests ==
  {<<ArgF, PathIn, ArgLw, ArgW>>, <<ArgF, PathIn, ArgLl>>,
   <<ArgF, PathIn, ArgO, PathOut, ArgLl, ArgLw>>}

\* input files: empty, no word and one empty line, two words on one line,
\* the same line twice
MemoryFiles == {<<>>, <<NL>>, <<98, SP, 97>>, <<97, NL, 97>>}

MemoryControlFiles ==
  UNION {{fileOf(ls, <<NL>>) : ls \in SeqsOfLen({joined(t) : t \in MemoryRequests}, n)} :
           n \in 1..MaxBatchLines}

InitMemory ==
  /\ pc = "main"
  /\ args = <<ArgB, PathCtl>>
  /\ ps = parseStart
  /\ errors = <<>>
  /\ content = <<>> /\ cursor = 0
  /\ ListStart
  /\ RunStart

MainBatchMemory == MainBatchFrom(MemoryControlFiles)

OpenInputMemory == OpenInputFrom(MemoryFiles)

NextMemory ==
  \/ MainBatchMemory
  \/ BatchLine \/ BatchLineDone \/ BatchFetch \/ BatchClose \/ BatchReturn
  \/ OpenInputMemory \/ CheckEmpty \/ OpenOutput
  \/ PassChars \/ PassWords \/ PassLines
  \/ EmitSection \/ Cleanup

SpecMemory == InitMemory /\ [][NextMemory]_vars

\* C27: every Token Entry (node and text) and every tie buffer allocated
\* while serving a request is released exactly once before analyzeFile
\* returns; when a batch line starts nothing of an earlier line is allocated;
\* no block is released twice
C27_ReleasedExactlyOnce ==
  /\ Range(mem.released) \subseteq allocated(heap, mem)
  /\ Len(mem.released) = Cardinality(Range(mem.released))
  /\ pc = "return" => settled(heap, mem) /\ freed = 1..Len(heap)
  /\ pc \in {"batchLine", "batchFetch", "openInput"} => heap = <<>> /\ mem = NoMem

\* analyzeFile has returned from the second line of a batch, both lines
\* served; the second built two word entries and one line entry and used a
\* tie buffer for each kind
C27_Witness ==
  /\ pc = "return"
  /\ Len(batchLog) = 2
  /\ batchLog[1].result = 1
  /\ batchLog[1].tokens = <<ArgF, PathIn, ArgLw, ArgW>>
  /\ analyzeResult = 1
  /\ mem.ties = 2
  /\ Len(heap) = 3
  /\ Len(mem.released) = 8

----------------------------------------------------------------------------
(* SpecTokens: the loop body of processBatchFile over lines whose arguments *)
(* are separated by runs of spaces and tabs                                 *)

TAB == 9

\* longest run of white space between two arguments
MaxGap == 2

Gaps == UNION {SeqsOfLen({SP, TAB}, n) : n \in 1..MaxGap}

TokenRequests ==
  {<<ArgF, PathIn, ArgC>>, <<ArgF, PathIn, ArgC, ArgW>>, <<ArgC, ArgF, PathIn>>}

\* the line of the arguments with gaps[k] between the k-th and the next
gapped(tokens, gaps) ==
  Concat([k \in 1..Len(tokens) |-> IF k = 1 THEN tokens[k] ELSE gaps[k - 1] \o tokens[k]])

TokenLines ==
  UNION {{gapped(t, g) : g \in SeqsOfLen(Gaps, Len(t) - 1)} : t \in TokenRequests}

\* the line with a space in the place of each tab
spaced(line) == [k \in 1..Len(line) |-> IF line[k] = TAB THEN SP ELSE line[k]]

\* fgets has read a line of the control file into the buffer
InitTokens ==
  /\ pc = "batchLine"
  /\ args = <<ArgB, PathCtl>>
  /\ ps = parseStart
  /\ errors = <<>>
  /\ content = <<>> /\ cursor = 0
  /\ ListStart
  /\ longest = NoLongest /\ stdoutOpen = TRUE /\ mem = NoMem
  /\ chars = NoChars /\ fileSize = -1
  /\ inputOpen = FALSE /\ outputOpen = FALSE /\ created = {}
  /\ passLog = <<>> /\ emitIdx = 0 /\ firstSection = 1
  /\ report = <<>> /\ analyzeResult = -1 /\ exitCode = -1
  /\ batchFP = "open"
  /\ \E line \in TokenLines :
       /\ batchData = line \o <<NL>>
       /\ batchCursor = Len(line) + 1
       /\ batchLine = line \o <<NL>>
  /\ batchLog = <<>>

NextTokens == BatchLine \/ BatchFetch

SpecTokens == InitTokens /\ [][NextTokens]_vars

\* the separators of the line of log entry e
hasTab(e) == \E k \in 1..Len(e.line) : e.line[k] = TAB

\* C28: any run of spaces or tabs separates two arguments of a control-file
\* line and is part of none: the argument list of a line is that of the same
\* line with spaces in the place of its tabs
C28_TabsSeparate ==
  \A k \in 1..Len(batchLog) :
    /\ batchLog[k].tokens = strtokLoop(spaced(batchLog[k].line))
    /\ \A i \in 1..Len(batchLog[k].tokens) :
         \A j \in 1..Len(batchLog[k].tokens[i]) : batchLog[k].tokens[i][j] \notin {SP, TAB}

\* lines separated by spaces only: runs of spaces separate the arguments
SpacesSeparate ==
  \A k \in 1..Len(batchLog) :
    ~hasTab(batchLog[k]) =>
      \E t \in TokenRequests : batchLog[k].tokens = t

----------------------------------------------------------------------------
(* SpecMain: the entry of main over argument lists in which -B may stand at *)
(* any place                                                                *)

MainAlphabet == {ArgB, ArgF, ArgO, ArgC, PathIn}

InitMain ==
  /\ pc = "main"
  /\ \E n \in 0..MaxRunArgs : args \in SeqsOfLen(MainAlphabet, n)
  /\ ps = parseStart
  /\ errors = <<>>
  /\ content = <<>> /\ cursor = 0
  /\ ListStart
  /\ RunStart

\* the control file, if it can be opened, is empty
MainBatchEmpty == MainBatchFrom({<<>>})

NextMain == MainUsage \/ MainParse \/ MainBatchEmpty \/ BatchReturn

SpecMain == InitMain /\ [][NextMain]_vars

\* fewer than two arguments: the usage message, exit code 1, no flag parsed
usageOnly ==
  Len(args) < 2 /\ pc # "main" =>
    /\ pc = "exit" /\ exitCode = 1
    /\ errors = <<printUsageError>>
    /\ ps = parseStart /\ batchFP = "none"

\* two or more arguments: batch mode exactly when the first one is -B,
\* single-run validation otherwise
batchIffFirst ==
  Len(args) >= 2 /\ pc # "main" =>
    /\ (batchFP # "none") <=> (args[1] = ArgB)
    /\ (ps # parseStart) <=> (args[1] # ArgB)

\* a single run has validated an argument list in which -B occurs
singleRunWithB ==
  /\ Len(args) >= 2 /\ pc # "main"
  /\ args[1] # ArgB
  /\ \E k \in 1..Len(args) : args[k] = ArgB

\* C29 as stated: with fewer than two arguments the run ends with the usage
\* message and exit code 1 without parsing; with two or more, batch mode is
\* entered exactly when the first argument is -B; otherwise the arguments are
\* validated as a single run, in which -B at any position is an InvalidFlag
C29_BatchFlagInvalidAnywhere ==
  /\ usageOnly
  /\ batchIffFirst
  /\ singleRunWithB =>
       /\ pc = "exit" /\ exitCode = 1
       /\ errors = <<printInvalidFlagError>>

\* C29, amended: as above, but a single run with -B in it ends with exit
\* code 1 and one message of the validation, which stops at or before the
\* first -B: at the -B itself the message is InvalidFlag; at a -f / -o
\* directly before it the -B is read as a missing operand (NoInputFile /
\* NoOutputFile); an error found earlier is reported as for any other list
C29_BatchFlagNeverAccepted ==
  /\ usageOnly
  /\ batchIffFirst
  /\ singleRunWithB =>
       LET first == Min({k \in 1..Len(args) : args[k] = ArgB})
       IN  /\ pc = "exit" /\ exitCode = 1
           /\ ps.ret = 0 /\ errors = ps.printed /\ Len(errors) = 1
           /\ ps.i <= first
           /\ ps.i = first => errors = <<printInvalidFlagError>>
           /\ ps.i = first - 1 /\ args[ps.i] = ArgF => errors = <<printNoInputFileError>>
           /\ ps.i = first - 1 /\ args[ps.i] = ArgO => errors = <<printNoOutputFileError>>

\* a single run whose -B stands in the operand place of -f has ended
C29_Witness ==
  /\ pc = "exit"
  /\ args = <<ArgC, ArgF, ArgB>>
  /\ errors = <<printNoInputFileError>>
  /\ exitCode = 1

----------------------------------------------------------------------------
(* Order of the runtime errors *)

runtimeErrors == {printInputFileError, printInputFileEmptyError, printOutputFileError}

\* the runtime errors printed so far, in order
runtimePrinted == SelectSeq(errors, LAMBDA e : e \in runtimeErrors)

\* C30: the output file named by -o is created or truncated only after the
\* input file was opened and found non-empty, so a request that ends with
\* CantOpenInputFile or InputFileEmpty leaves the output path untouched; at
\* most one of the three runtime errors is reported per request, the first
\* that applies of CantOpenInputFile, InputFileEmpty, CantOpenOutputFile
C30_OutputOpenedLast ==
  /\ created # {} => fileSize > 0 /\ ps.outputFile # NULL /\ created = {args[ps.outputFile]}
  /\ Len(runtimePrinted) <= 1
  /\ analyzeResult = 0 =>
       /\ Len(runtimePrinted) = 1
       /\ runtimePrinted[1] = printInputFileError => fileSize = -1 /\ created = {}
       /\ runtimePrinted[1] = printInputFileEmptyError => fileSize = 0 /\ created = {}
       /\ runtimePrinted[1] = printOutputFileError =>
            fileSize > 0 /\ ps.outputFile # NULL /\ created = {}
       /\ fileSize = -1 => runtimePrinted[1] = printInputFileError
       /\ fileSize = 0 => runtimePrinted[1] = printInputFileEmptyError

\* a run with -o has ended at an empty input file: no output path was touched
C30_Witness ==
  /\ pc = "exit"
  /\ ps.outputFile # NULL
  /\ fileSize = 0
  /\ errors = <<printInputFileEmptyError>>
  /\ created = {}
  /\ exitCode = 1

----------------------------------------------------------------------------
(* SpecWords: buildWordList over the small files and over a file with a    *)
(* word as long as the buffer                                              *)

\* the words b, a...a (MAX_WORD_LENGTH letters) and c
LongWordFile ==
  [k \in 1..(MAX_WORD_LENGTH + 4) |->
     IF k = 1 THEN 98
     ELSE IF k = 2 \/ k = MAX_WORD_LENGTH + 3 THEN SP
     ELSE IF k = MAX_WORD_LENGTH + 4 THEN 99
     ELSE 97]

InitWords ==
  /\ pc = "words"
  /\ \/ \E n \in 0..MaxFileLen : content \in SeqsOfLen(FileAlphabet, n)
     \/ content = LongWordFile
  /\ cursor = 0
  /\ args = <<>> /\ ps = parseStart /\ errors = <<>>
  /\ ListStart
  /\ RunStart

\* what wordIndex may hold once fscanf has written past the buffer: its
\* value, or bytes of the word and of its terminator
clobbered(index, word) == {index, 0, word[Len(word)]}

\* fscanf(fp, "%s", buffer) with a word that does not fit: the bytes past the
\* end of the buffer go into whatever lies behind it. The behaviour of the
\* program is undefined: it stops, or it goes on with wordIndex overwritten
BuildWordOverrun ==
  /\ pc = "words"
  /\ LET r == fscanfWord(content, cursor)
     IN  /\ r.ok
         /\ ~fitsBuffer(r.buffer)
         /\ \/ /\ pc' = "overrun"
               /\ UNCHANGED <<heap, wordHead, totalWords, wordIndex, cursor>>
            \/ \E position \in clobbered(wordIndex, r.buffer) :
                 LET ins == insertWord(heap, wordHead, r.buffer, position)
                 IN  /\ heap' = ins.heap
                     /\ wordHead' = ins.head
                     /\ totalWords' = totalWords + 1
                     /\ wordIndex' = position + 1
                     /\ cursor' = r.pos
                     /\ pc' = pc
  /\ UNCHANGED <<args, ps, errors, content, freed, uniqueWords,
                 lineHead, totalLines, uniqueLines, lineIndex, runVars>>

NextWords == BuildWordStep \/ BuildWordOverrun \/ BuildWordEnd

SpecWords == InitWords /\ [][NextWords]_vars

RECURSIVE sumFrequency(_, _)
sumFrequency(h, ns) ==
  IF ns = <<>> THEN 0 ELSE h[Head(ns)].frequency + sumFrequency(h, Tail(ns))

\* the entries of the list account for total tokens
Accounted(h, head, total) ==
  LET ns == listNodes(h, head)
  IN  /\ sumFrequency(h, ns) = total
      /\ \A k \in 1..Len(ns) :
           /\ h[ns[k]].frequency >= 1
           /\ h[ns[k]].orderAppeared \in 0..(total - 1)
      /\ \A k, l \in 1..Len(ns) :
           k # l => h[ns[k]].orderAppeared # h[ns[l]].orderAppeared
      /\ ns # <<>> => \E k \in 1..Len(ns) : h[ns[k]].orderAppeared = 0

\* C31: after any sequence of inserts driven by buildWordList or
\* buildLineList the frequencies of the entries sum to the number of tokens
\* read, every frequency is at least 1, every first-appearance index lies in
\* 0 .. total - 1, distinct entries have distinct first-appearance indices,
\* and a non-empty collection has an entry with first-appearance index 0
C31_EntriesAccountForTokens ==
  /\ Accounted(heap, wordHead, totalWords)
  /\ Accounted(heap, lineHead, totalLines)

----------------------------------------------------------------------------
(* SpecFlags: parseArguments over lists of analysis flags, long enough for *)
(* a flag to come again after all five kinds were recorded                  *)

InitFlags ==
  /\ pc = "parse"
  /\ \E n \in 0..MaxFlagArgs : args \in SeqsOfLen(AnalysisFlags, n)
  /\ ps = parseStart
  /\ errors = <<>>
  /\ content = <<>> /\ cursor = 0
  /\ ListStart
  /\ RunStart

NextFlags == ParseArg \/ ParseEnd

SpecFlags == InitFlags /\ [][NextFlags]_vars

\* the request mark of a kind
requestOf(st, kind) ==
  IF kind = FLAG_C THEN st.requestCharAnalysis
  ELSE IF kind = FLAG_W THEN st.requestWordAnalysis
  ELSE IF kind = FLAG_L THEN st.requestLineAnalysis
  ELSE IF kind = FLAG_LW THEN st.requestLongestWord
  ELSE st.requestLongestLine

\* C32: at every point of parsing the order list holds between 0 and 5
\* kinds, no kind twice, and a kind exactly when the request flag of that
\* kind is set; no write to the order list goes past its fifth slot, however
\* often flags are repeated
C32_OrderListBounded ==
  /\ ps.flagCount \in 0..MAX_FLAGS
  /\ ~ps.overflow
  /\ \A j, k \in 0..(ps.flagCount - 1) : j # k => ps.flagOrder[j] # ps.flagOrder[k]
  /\ \A kind \in {FLAG_C, FLAG_W, FLAG_L, FLAG_LW, FLAG_LL} :
       (\E k \in 0..(ps.flagCount - 1) : ps.flagOrder[k] = kind) <=> (requestOf(ps, kind) = 1)
  /\ \A k \in 0..(MAX_FLAGS - 1) : k >= ps.flagCount => ps.flagOrder[k] = -1

\* all five kinds were recorded, then one of them came again
C32_Witness ==
  /\ args = <<ArgLl, ArgLw, ArgL, ArgW, ArgC, ArgLl>>
  /\ ps.i = 7
  /\ ps.flagCount = 5
  /\ ps.flagOrder = [k \in 0..4 |-> 4 - k]

----------------------------------------------------------------------------
(* Requests without an analysis flag *)

\* main was given a well-shaped list with -f and with no analysis flag
flaglessRequest ==
  /\ Len(args) >= 2
  /\ WellShaped(args)
  /\ Occurs(ArgF, args)
  /\ \A k \in 1..Len(args) : args[k] \notin AnalysisFlags

\* C33: a valid request that names an input file but no analysis flag runs
\* like any other: no analysis pass runs, no section and no separator is
\* written; unless opening the files fails it ends with exit code 0, and the
\* output file, if -o names one, was created or truncated and is left empty
C33_FlaglessRequestSucceeds ==
  flaglessRequest /\ pc # "main" =>
    /\ ps.ret = 1 /\ ps.flagCount = 0
    /\ passLog = <<>> /\ report = <<>> /\ heap = <<>> /\ chars = NoChars
    /\ \A k \in 1..Len(errors) : errors[k] \in runtimeErrors
    /\ pc = "exit" =>
         /\ (exitCode = 0) <=> (errors = <<>>)
         /\ errors = <<>> =>
              /\ analyzeResult = 1 /\ fileSize > 0
              /\ created = IF ps.outputFile = NULL THEN {} ELSE {args[ps.outputFile]}

\* a run of -f in -o out has ended well: out was created and nothing written
C33_Witness ==
  /\ pc = "exit"
  /\ args = <<ArgF, PathIn, ArgO, PathOut>>
  /\ exitCode = 0
  /\ created = {PathOut}
  /\ report = <<>>
  /\ passLog = <<>>

----------------------------------------------------------------------------
(* The sort of the tied entries *)

\* the entries of greatest length, in the order of the collection
tiedInCollectionOrder ==
  SelectSeq(listNodes(heap, longest.head),
            LAMBDA n : heap[n].numChars = longest.maxLength)

\* C34: the sort of the tied entries changes nothing: they are collected in
\* the order of the collection, which is ascending, so that no iteration of
\* the sort swaps two of them and the entries are listed in the order they
\* have in the collection
C34_SortChangesNothing ==
  [][pc = "sort" =>
       /\ longest.longestWords = tiedInCollectionOrder
       /\ longest'.longestWords = longest.longestWords
       /\ pc' = "longestDone" =>
            SubSeq(report', 2, Len(report')) =
              [k \in 1..Len(tiedInCollectionOrder) |->
                 item("Longest " \o longest.kind \o " Entry",
                      heap[tiedInCollectionOrder[k]].contents, 0, 0)]]_vars

\* three tied words went through the sort and were listed
C34_Witness ==
  /\ pc = "longestDone"
  /\ longest.kind = "Word"
  /\ longest.longestCount = 3
  /\ longest.i = 3
  /\ Len(report) = 4

----------------------------------------------------------------------------
(* The links of the list *)

\* the list from head is consistent in both directions and begins with its
\* smallest text
Linked(h, head) ==
  LET ns == listNodes(h, head)
  IN  /\ Len(ns) <= Len(h)
      /\ ns # <<>> =>
           /\ h[ns[1]].prevWord = NULL
           /\ h[ns[Len(ns)]].nextWord = NULL
      /\ \A k \in 1..(Len(ns) - 1) :
           /\ h[ns[k]].nextWord = ns[k + 1]
           /\ h[ns[k + 1]].prevWord = ns[k]
      /\ \A k \in 1..Len(ns) : strcmp(h[head].contents, h[ns[k]].contents) <= 0

\* C35: after any sequence of inserts the previous link of the head is null,
\* the next link of the last entry is null, the previous link of every
\* successor is its predecessor, every entry created is reachable from the
\* head returned, and the head is the entry with the smallest text
C35_LinksConsistent ==
  /\ Linked(heap, wordHead)
  /\ Linked(heap, lineHead)
  /\ Range(listNodes(heap, wordHead)) \cup Range(listNodes(heap, lineHead)) = 1..Len(heap)
  /\ Len(listNodes(heap, wordHead)) + Len(listNodes(heap, lineHead)) = Len(heap)
  /\ (wordHead = NULL) <=> (totalWords = 0)
  /\ (lineHead = NULL) <=> (totalLines = 0)

\* the words c, a, b were spliced in at the head and in the middle, and the
\* lines "c" and "a b" at the head
C35_Witness ==
  /\ pc = "built"
  /\ content = <<99, NL, 97, SP, 98>>
  /\ Len(heap) = 5
  /\ wordHead = 2
  /\ lineHead = 5
  /\ heap[1].prevWord = 3

----------------------------------------------------------------------------
(* Capacity of the tie buffer *)

\* the entries of the collection whose length is the greatest found
tiedNodes ==
  {n \in 1..Len(heap) : heap[n].numChars = longest.maxLength}

\* C36: the finder never stores more tied entries than the tie buffer holds:
\* the entries of greatest length are at most LONGEST_CAPACITY, and no store
\* goes past the last slot of the buffer
C36_TiesFitBuffer ==
  /\ pc # "overrun"
  /\ longest.longestCount <= LONGEST_CAPACITY
  /\ pc = "collect" => Cardinality(tiedNodes) <= LONGEST_CAPACITY

====
